---- MODULE Spec2Model ----
(***************************************************************************)
(* Git-Summarizer: the git analyzer (command runner, status / diff-stat    *)
(* parsers), and the status / commit / report commands of the CLI.         *)
(*                                                                         *)
(* Text is modelled as a sequence of one-character strings, so that        *)
(* str.strip, str.split, slicing, substring search and the regular         *)
(* expressions of the source are computed character by character.          *)
(***************************************************************************)
EXTENDS Integers, Sequences, FiniteSets, TLC

(***************************************************************************)
(* Bounds of the model.                                                    *)
(***************************************************************************)
MaxLines == 2        \* porcelain lines in one status output
MaxPathLen == 2      \* characters in one path
MaxErrPieces == 3    \* fragments making up one standard-error text
MaxStatLines == 2    \* lines in one `git diff --stat` output
MaxDiffLen == 2      \* characters in one diff body
MaxBudget == 2       \* largest character budget (max_chars) supplied

(***************************************************************************)
(* Python string primitives.                                               *)
(***************************************************************************)
Whitespace == {" ", "\n", "\t", "\r"}

Range(s) == {s[i] : i \in 1..Len(s)}

MinOf(S) == CHOOSE x \in S : \A y \in S : x <= y

MaxOf(S) == CHOOSE x \in S : \A y \in S : x >= y

\* str.strip(): drop leading and trailing whitespace of the whole text
Strip(s) ==
    LET keep == {i \in 1..Len(s) : s[i] \notin Whitespace}
    IN  IF keep = {} THEN <<>> ELSE SubSeq(s, MinOf(keep), MaxOf(keep))

\* s[:n]
Prefix(s, n) == SubSeq(s, 1, IF n < Len(s) THEN n ELSE Len(s))

\* s[n:]  (n is the 0-based start index)
Suffix(s, n) == SubSeq(s, n + 1, Len(s))

\* str.find: 1-based index of the first occurrence of sub in s, 0 if none
Find(s, sub) ==
    LET hits == {i \in 1..(Len(s) - Len(sub) + 1) :
                    SubSeq(s, i, i + Len(sub) - 1) = sub}
    IN  IF hits = {} THEN 0 ELSE MinOf(hits)

\* sub in s
Contains(s, sub) == Find(s, sub) # 0

RECURSIVE Split(_, _)
\* str.split(sep) for a one-character separator: always count(sep)+1 pieces
Split(s, sep) ==
    LET i == Find(s, <<sep>>)
    IN  IF i = 0 THEN <<s>>
        ELSE <<SubSeq(s, 1, i - 1)>> \o Split(SubSeq(s, i + 1, Len(s)), sep)

RECURSIVE Concat(_)
\* "".join(pieces)
Concat(pieces) ==
    IF pieces = <<>> THEN <<>> ELSE Head(pieces) \o Concat(Tail(pieces))

\* every sequence over S of length lo..hi
SeqsOf(S, lo, hi) == UNION {[1..n -> S] : n \in lo..hi}

(***************************************************************************)
(* Repository status: what `git status --porcelain` prints.                *)
(* One entry per line: the two status characters XY and the path.          *)
(***************************************************************************)
PathChars == {"a", "b"}

Paths == SeqsOf(PathChars, 1, MaxPathLen)

\* XY codes of porcelain v1 that the model draws from
StatusCodes ==
    { <<" ", "M">>, <<"M", "M">>, <<"A", " ">>, <<"D", " ">>, <<"R", " ">>,
      <<"C", " ">>, <<" ", "D">>, <<"?", "?">>, <<"U", "U">> }

StatusLine == [xy : StatusCodes, path : Paths]

\* the text git prints for these entries: `XY path\n` per entry
RECURSIVE PorcelainText(_)
PorcelainText(entries) ==
    IF entries = <<>> THEN <<>>
    ELSE Head(entries).xy \o <<" ">> \o Head(entries).path \o <<"\n">>
         \o PorcelainText(Tail(entries))

\* outputs of `git branch --show-current` (empty on a detached HEAD)
BranchOutputs == { <<"m", "\n">>, <<>> }

NoValue == [kind |-> "none"]

Returned(v) == [kind |-> "return", value |-> v]

Raised(e) == [kind |-> "raise", error |-> e]

VARIABLES
    worktree,       \* the status entries git will report
    repo_status,    \* outcome of get_repo_status: NoValue, Returned, Raised
    proc,           \* what subprocess.run produced in the last _run_git call
    run_git_out,    \* outcome of the last _run_git call
    stat_entries,   \* the lines `git diff --stat` prints, as git composes them
    raw_diff,       \* the diff body `git diff` / `git show` prints
    max_chars,      \* the caller's character budget, or None
    diff_summary,   \* outcome of _parse_diff_stats
    commit_diff,    \* outcome of get_commit_diff
    cmd,            \* the command click dispatched: status, commit, report
    pc,             \* where the command is
    opts,           \* the command's options
    has_git_dir,    \* whether the target path has a `.git` entry
    git,            \* outcome of GitAnalyzer(path)
    config,         \* config.py `_config`: NoValue until first loaded
    files_to_analyze, \* the command's local of that name
    commits,        \* report: what get_recent_commits returned
    selected_commits, \* report: the commits that go into the report
    days,           \* report: the period in days, None until it is decided
    llm_text,       \* outcome of the LLM call of the command
    events,         \* what the command printed, asked and called, in order
    log_records,    \* the commit records `git log` prints, each a list of fields
    log_output,     \* the text `git log` prints for them
    py311,          \* whether the interpreter is Python 3.11 or later
    commit_log,     \* outcome of get_recent_commits
    environ,        \* os.environ: the variables config.py reads
    provider,       \* outcome of Config.get_active_provider
    llm_client,     \* outcome of LLMClient(provider)
    llm_request,    \* what the command handed to the LLM client, NoValue before
    backend_response, \* what the LLM backend answers to the request
    generate_out,   \* outcome of LLMClient._generate
    report_text,    \* the narrative a report is sent with
    slack_summary   \* outcome of SlackSender._truncate(report_text, 2500)

statusVars == <<worktree, repo_status>>

runGitVars == <<proc, run_git_out>>

diffVars == <<stat_entries, raw_diff, max_chars, diff_summary, commit_diff>>

cmdVars == <<cmd, pc, opts, has_git_dir, git, config, files_to_analyze,
             commits, selected_commits, days, llm_text, events>>

logVars == <<log_records, log_output, py311, commit_log>>

configVars == <<environ, provider, llm_client>>

llmVars == <<llm_request, backend_response, generate_out>>

slackVars == <<report_text, slack_summary>>

vars == <<statusVars, runGitVars, diffVars, cmdVars, logVars, configVars,
          llmVars, slackVars>>

StatusIdle == worktree = <<>> /\ repo_status = NoValue

RunGitIdle == proc = NoValue /\ run_git_out = NoValue

None == [some |-> FALSE]

Some(n) == [some |-> TRUE, n |-> n]

\* a variable the environment does not define
Unset == <<"unset">>

LogIdle ==
    /\ log_records = <<>>
    /\ log_output = <<>>
    /\ py311 = TRUE
    /\ commit_log = NoValue

ConfigIdle ==
    /\ environ = [GEMINI_API_KEY |-> Unset, OPENROUTER_API_KEY |-> Unset,
                  GIT_SUMMARIZER_PROVIDER |-> Unset, GIT_SUMMARIZER_DAYS |-> Unset,
                  GIT_SUMMARIZER_MAX_DIFF |-> Unset, SLACK_WEBHOOK_URL |-> Unset]
    /\ provider = NoValue
    /\ llm_client = NoValue

LlmIdle ==
    /\ llm_request = NoValue
    /\ backend_response = NoValue
    /\ generate_out = NoValue

SlackIdle == report_text = <<>> /\ slack_summary = NoValue

DiffIdle ==
    /\ stat_entries = <<>>
    /\ raw_diff = <<>>
    /\ max_chars = None
    /\ diff_summary = NoValue
    /\ commit_diff = NoValue

\* analyzer.py:94  code[0] in 'MADRC'
IndexLetters == {"M", "A", "D", "R", "C"}

\* analyzer.py:90  code = line[:2]
CodeOf(line) == Prefix(line, 2)

\* analyzer.py:91  filename = line[3:]
FilenameOf(line) == Suffix(line, 3)

IsStagedLine(line) == CodeOf(line)[1] \in IndexLetters

\* the working-tree test written as `elif`: skipped once the line is staged
IsModifiedLine_elif(line) ==
    /\ CodeOf(line)[1] \notin IndexLetters
    /\ CodeOf(line)[2] = "M"

IsModifiedLine(line) == CodeOf(line)[2] = "M"

IsUntrackedLine(line) == CodeOf(line) = <<"?", "?">>

\* the loop of get_repo_status over the lines it iterates
StatusLinesOf(status_output) ==
    SelectSeq(Split(Strip(status_output), "\n"), LAMBDA l : l # <<>>)

FilenamesWhere(lines, Test(_)) ==
    LET sel == SelectSeq(lines, Test)
    IN  [i \in 1..Len(sel) |-> FilenameOf(sel[i])]

\* is_dirty that also counts untracked files
IsDirtyOf_untracked(staged, modified, untracked) ==
    staged # <<>> \/ modified # <<>> \/ untracked # <<>>

IsDirtyOf(staged, modified, untracked) == staged # <<>> \/ modified # <<>>

\* GitAnalyzer.get_repo_status on the given outputs of the two git queries
GetRepoStatus(status_output, branch_output) ==
    LET lines == StatusLinesOf(status_output)
    IN  IF \E i \in 1..Len(lines) : Len(lines[i]) < 2
        THEN Raised("IndexError")
        ELSE LET staged == FilenamesWhere(lines, IsStagedLine)
                 modified == FilenamesWhere(lines, IsModifiedLine)
                 untracked == FilenamesWhere(lines, IsUntrackedLine)
             IN  Returned([staged |-> staged,
                           modified |-> modified,
                           untracked |-> untracked,
                           is_dirty |-> IsDirtyOf(staged, modified, untracked),
                           branch |-> Strip(branch_output)])

\* click defaults of the options (cli.py:82-84, 179-180, 269-273)
DefaultOpts ==
    [interactive |-> FALSE, show_diff |-> FALSE, days |-> None,
     save_path |-> FALSE, slack |-> FALSE]

CmdIdle ==
    /\ cmd = "none"
    /\ pc = "idle"
    /\ opts = DefaultOpts
    /\ has_git_dir = TRUE
    /\ git = NoValue
    /\ config = NoValue
    /\ files_to_analyze = <<>>
    /\ commits = <<>>
    /\ selected_commits = <<>>
    /\ days = None
    /\ llm_text = NoValue
    /\ events = <<>>

StatusInit ==
    /\ StatusIdle /\ RunGitIdle /\ DiffIdle /\ CmdIdle /\ LogIdle /\ ConfigIdle
    /\ LlmIdle /\ SlackIdle

\* the operator edits, stages or adds a file: git has one more entry to report
WorktreeChange ==
    /\ repo_status = NoValue
    /\ Len(worktree) < MaxLines
    /\ \E e \in StatusLine : worktree' = Append(worktree, e)
    /\ UNCHANGED <<repo_status, runGitVars, diffVars, cmdVars>>
    /\ UNCHANGED <<logVars, configVars>>
    /\ UNCHANGED <<slackVars, llmVars>>

get_repo_status ==
    /\ repo_status = NoValue
    /\ \E b \in BranchOutputs :
          repo_status' = GetRepoStatus(PorcelainText(worktree), b)
    /\ UNCHANGED <<worktree, runGitVars, diffVars, cmdVars>>
    /\ UNCHANGED <<logVars, configVars>>
    /\ UNCHANGED <<slackVars, llmVars>>

StatusNext == WorktreeChange \/ get_repo_status

SpecStatus == StatusInit /\ [][StatusNext]_vars

(***************************************************************************)
(* The command runner: GitAnalyzer._run_git.                               *)
(***************************************************************************)
FatalMarker == <<"f", "a", "t", "a", "l", ":">>

GitErrorPrefix == <<"G", "i", "t", " ", "e", "r", "r", "o", "r", ":", " ">>

\* fragments the standard-error texts of the model are put together from
ErrPieces == { <<"f", "a", "t", "a", "l">>, <<":">>, <<" ">>, <<"w">>, <<"\n">> }

StderrTexts == {Concat(ps) : ps \in SeqsOf(ErrPieces, 0, MaxErrPieces)}

StdoutTexts == { <<>>, <<"o">>, <<"o", "\n">> }

ExitCodes == {0, 1, 128}

\* subprocess.run raised FileNotFoundError: there is no git binary
FileNotFound == [kind |-> "FileNotFoundError"]

Completed == [kind : {"completed"}, returncode : ExitCodes,
              stderr : StderrTexts, stdout : StdoutTexts]

RuntimeError(msg) == [type |-> "RuntimeError", message |-> msg]

ValueError(msg) == [type |-> "ValueError", message |-> msg]

GitNotInstalled == <<"n", "o", " ", "g", "i", "t">>

\* the fatal test without the exit-code guard
RunGit_ignores_exit(r) ==
    IF r.kind = "FileNotFoundError"
    THEN Raised(RuntimeError(GitNotInstalled))
    ELSE IF Contains(r.stderr, FatalMarker)
         THEN Raised(RuntimeError(GitErrorPrefix \o Strip(r.stderr)))
         ELSE Returned(r.stdout)

\* subprocess.run(..., check=True): any non-zero exit is an error
RunGit_check(r) ==
    IF r.kind = "FileNotFoundError"
    THEN Raised(RuntimeError(GitNotInstalled))
    ELSE IF r.returncode # 0
         THEN Raised(RuntimeError(GitErrorPrefix \o Strip(r.stderr)))
         ELSE Returned(r.stdout)

\* _run_git on the outcome r of subprocess.run
RunGit(r) ==
    IF r.kind = "FileNotFoundError"
    THEN Raised(RuntimeError(GitNotInstalled))
    ELSE IF r.returncode # 0 /\ r.stderr # <<>> /\ Contains(r.stderr, FatalMarker)
         THEN Raised(RuntimeError(GitErrorPrefix \o Strip(r.stderr)))
         ELSE Returned(r.stdout)

RunGitInit ==
    /\ StatusIdle /\ RunGitIdle /\ DiffIdle /\ CmdIdle /\ LogIdle /\ ConfigIdle
    /\ LlmIdle /\ SlackIdle

\* one call of _run_git: subprocess.run completes with r, _run_git decides
run_git ==
    /\ run_git_out = NoValue
    /\ \E r \in Completed \cup {FileNotFound} :
          /\ proc' = r
          /\ run_git_out' = RunGit(r)
    /\ UNCHANGED <<statusVars, diffVars, cmdVars>>
    /\ UNCHANGED <<logVars, configVars>>
    /\ UNCHANGED <<slackVars, llmVars>>

RunGitNext == run_git

SpecRunGit == RunGitInit /\ [][RunGitNext]_vars

(***************************************************************************)
(* Diff statistics: GitAnalyzer._parse_diff_stats and get_commit_diff.     *)
(***************************************************************************)
Digits == {"0", "1", "2", "3", "4", "5", "6", "7", "8", "9"}

DigitChars == <<"0", "1", "2", "3", "4", "5", "6", "7", "8", "9">>

DigitValue(c) == (CHOOSE i \in 1..10 : DigitChars[i] = c) - 1

RECURSIVE ToInt(_)
\* int(text) of a run of decimal digits
ToInt(ds) ==
    IF ds = <<>> THEN 0
    ELSE ToInt(SubSeq(ds, 1, Len(ds) - 1)) * 10 + DigitValue(ds[Len(ds)])

RECURSIVE ToDigits(_)
\* the decimal text of a natural number, as git prints it
ToDigits(n) ==
    IF n < 10 THEN <<DigitChars[n + 1]>>
    ELSE ToDigits(n \div 10) \o <<DigitChars[(n % 10) + 1]>>

InsertionWord == <<" ", "i", "n", "s", "e", "r", "t", "i", "o", "n">>

DeletionWord == <<" ", "d", "e", "l", "e", "t", "i", "o", "n">>

PlusMark == <<"(", "+", ")">>

MinusMark == <<"(", "-", ")">>

FileWord == <<" ", "f", "i", "l", "e">>

ChangedWord == <<" ", "c", "h", "a", "n", "g", "e", "d">>

\* file names and change graphs of the per-file lines of the model
StatFileNames == { <<"a">>, <<"b", " ", "c">>, <<"d", "|", "e">> }

StatGraphs == { <<"2", " ", "+", "-">> }

\* counts a summary line may carry (None: the part is not printed)
StatCounts == {None, Some(1), Some(10)}

StatEntry ==
    [kind : {"file"}, name : StatFileNames, graph : StatGraphs]
    \cup [kind : {"summary"}, nfiles : {2}, ins : StatCounts, del : StatCounts]

Plural(n) == IF n = 1 THEN <<>> ELSE <<"s">>

\* one line of `git diff --stat`, without its newline
StatLineText(e) ==
    IF e.kind = "file"
    THEN <<" ">> \o e.name \o <<" ", "|", " ">> \o e.graph
    ELSE <<" ">> \o ToDigits(e.nfiles) \o FileWord \o Plural(e.nfiles) \o ChangedWord
         \o (IF e.ins.some
             THEN <<",", " ">> \o ToDigits(e.ins.n)
                  \o InsertionWord \o Plural(e.ins.n) \o PlusMark
             ELSE <<>>)
         \o (IF e.del.some
             THEN <<",", " ">> \o ToDigits(e.del.n)
                  \o DeletionWord \o Plural(e.del.n) \o MinusMark
             ELSE <<>>)

RECURSIVE StatText(_)
\* the whole output: every line followed by a newline
StatText(entries) ==
    IF entries = <<>> THEN <<>>
    ELSE StatLineText(Head(entries)) \o <<"\n">> \o StatText(Tail(entries))

\* text[i..] starts with lit
StartsWithAt(text, i, lit) ==
    /\ i + Len(lit) - 1 <= Len(text)
    /\ SubSeq(text, i, i + Len(lit) - 1) = lit

\* last index of the run of digits that starts at i
DigitRunEnd(text, i) ==
    MaxOf({j \in i..Len(text) : \A k \in i..j : text[k] \in Digits})

\* the pattern without the optional `s`: `(\d+) insertions\(\+\)`
CountMatchAt_plural_only(text, i, word, mark) ==
    /\ text[i] \in Digits
    /\ LET j == DigitRunEnd(text, i)
       IN  /\ StartsWithAt(text, j + 1, word)
           /\ StartsWithAt(text, j + 1 + Len(word), <<"s">> \o mark)

\* `(\d+)<word>s?<mark>` matches with its first character at index i
CountMatchAt(text, i, word, mark) ==
    /\ text[i] \in Digits
    /\ LET j == DigitRunEnd(text, i)
       IN  /\ StartsWithAt(text, j + 1, word)
           /\ \/ StartsWithAt(text, j + 1 + Len(word), <<"s">> \o mark)
              \/ StartsWithAt(text, j + 1 + Len(word), mark)

\* re.search(...): group(1) of the leftmost match as an integer, else the
\* initial value 0 of the total
SearchCount(text, word, mark) ==
    LET hits == {i \in 1..Len(text) : CountMatchAt(text, i, word, mark)}
    IN  IF hits = {} THEN 0
        ELSE LET i == MinOf(hits)
             IN  ToInt(SubSeq(text, i, DigitRunEnd(text, i)))

\* line.rsplit('|', 1)[0].strip(): the text before the last bar
StatFilename_last_bar(line) ==
    LET pieces == Split(line, "|")
    IN  Strip(SubSeq(line, 1, Len(line) - Len(pieces[Len(pieces)]) - 1))

\* analyzer.py:138  line.split('|')[0].strip()
StatFilename(line) == Strip(Split(line, "|")[1])

\* analyzer.py:136-139  the file list
StatFiles(stat_output) ==
    LET lines == Split(Strip(stat_output), "\n")
        sel == SelectSeq(lines, LAMBDA l : Contains(l, <<"|">>))
    IN  [i \in 1..Len(sel) |-> StatFilename(sel[i])]

TruncationMarker ==
    <<"\n", "\n", ".", ".", ".", " ",
      "(", "t", "r", "u", "n", "c", "a", "t", "e", "d", ")">>

\* Python truth value of an Optional[int]
Truthy(opt) == opt.some /\ opt.n # 0

\* the cut applied from the budget itself on: len(raw_diff) >= max_chars
Truncate_ge(diff, budget) ==
    IF Truthy(budget) /\ Len(diff) >= budget.n
    THEN Prefix(diff, budget.n) \o TruncationMarker
    ELSE diff
\* analyzer.py:157-159 and 216-219
Truncate(diff, budget) ==
    IF Truthy(budget) /\ Len(diff) > budget.n
    THEN Prefix(diff, budget.n) \o TruncationMarker
    ELSE diff

\* GitAnalyzer._parse_diff_stats
ParseDiffStats(diff, stat_output, budget) ==
    [files |-> StatFiles(stat_output),
     total_additions |-> SearchCount(stat_output, InsertionWord, PlusMark),
     total_deletions |-> SearchCount(stat_output, DeletionWord, MinusMark),
     raw_diff |-> Truncate(diff, budget)]

DiffBodies == SeqsOf({"x", "y"}, 0, MaxDiffLen)

Budgets == {None} \cup {Some(n) : n \in 0..MaxBudget}

DiffInit ==
    /\ StatusIdle /\ RunGitIdle /\ CmdIdle /\ LogIdle /\ ConfigIdle
    /\ LlmIdle /\ SlackIdle
    /\ stat_entries \in SeqsOf(StatEntry, 0, MaxStatLines)
    /\ raw_diff \in DiffBodies
    /\ max_chars \in Budgets
    /\ diff_summary = NoValue
    /\ commit_diff = NoValue

\* get_uncommitted_diff / get_staged_diff: the two outputs go to the parser
parse_diff_stats ==
    /\ diff_summary = NoValue /\ commit_diff = NoValue
    /\ diff_summary' =
          Returned(ParseDiffStats(raw_diff, StatText(stat_entries), max_chars))
    /\ UNCHANGED <<stat_entries, raw_diff, max_chars, commit_diff>>
    /\ UNCHANGED <<statusVars, runGitVars, cmdVars>>
    /\ UNCHANGED <<logVars, configVars>>
    /\ UNCHANGED <<slackVars, llmVars>>

get_commit_diff ==
    /\ commit_diff = NoValue /\ diff_summary = NoValue
    /\ commit_diff' = Returned(Truncate(raw_diff, max_chars))
    /\ UNCHANGED <<stat_entries, raw_diff, max_chars, diff_summary>>
    /\ UNCHANGED <<statusVars, runGitVars, cmdVars>>
    /\ UNCHANGED <<logVars, configVars>>
    /\ UNCHANGED <<slackVars, llmVars>>

DiffNext == parse_diff_stats \/ get_commit_diff

SpecDiff == DiffInit /\ [][DiffNext]_vars

(***************************************************************************)
(* The commit log: GitAnalyzer.get_recent_commits.                         *)
(* git prints every commit as its fields, each followed by the byte 0x00,  *)
(* then the byte 0x01; "NUL" and "SOH" stand for these two characters.     *)
(***************************************************************************)
MaxRecords == 2

\* %x00
FieldSep == "NUL"

\* %x01
RecordSep == "SOH"

\* --date=iso, as git prints it
GitIsoDate ==
    <<"2", "0", "2", "4", "-", "0", "1", "-", "1", "5", " ",
      "1", "0", ":", "3", "0", ":", "0", "0", " ", "+", "0", "1", "0", "0">>

ColonOffsetDate ==
    <<"2", "0", "2", "4", "-", "0", "1", "-", "1", "5", " ",
      "1", "0", ":", "3", "0", ":", "0", "0", " ", "+", "0", "1", ":", "0", "0">>

NoOffsetDate ==
    <<"2", "0", "2", "4", "-", "0", "1", "-", "1", "5", " ",
      "1", "0", ":", "3", "0", ":", "0", "0">>

BadMonthDate ==
    <<"2", "0", "2", "4", "-", "1", "3", "-", "1", "5", " ",
      "1", "0", ":", "3", "0", ":", "0", "0", " ", "+", "0", "1", ":", "0", "0">>

DateTexts ==
    {GitIsoDate, ColonOffsetDate, NoOffsetDate, BadMonthDate, <<"x">>, <<>>}

\* the six fields of a commit and the empty text after the last %x00
FullRecord(hash, date, subject) ==
    <<hash, <<"a", " ", "b">>, <<"e">>, date, subject, <<"b", "\n">>, <<>>>>

\* what can stand between two 0x01 bytes: whole records, records cut
\* short, records with damaged dates, records with blanks at their ends
LogRecords ==
    {SubSeq(FullRecord(<<"h">>, GitIsoDate, <<"s">>), 1, n) : n \in 1..7}
    \cup {SubSeq(FullRecord(<<"h">>, d, <<"s">>), 1, n) :
              d \in DateTexts, n \in {5, 7}}
    \cup { <<<<>>>>, <<<<" ">>>>,
           FullRecord(<<"g">>, GitIsoDate, <<"t">>),
           FullRecord(<<" ", "h">>, GitIsoDate, <<"s">>),
           SubSeq(FullRecord(<<"h">>, GitIsoDate, <<"s", " ">>), 1, 5) }

RECURSIVE JoinWith(_, _)
\* sep.join(pieces)
JoinWith(pieces, sep) ==
    IF pieces = <<>> THEN <<>>
    ELSE IF Len(pieces) = 1 THEN pieces[1]
    ELSE pieces[1] \o <<sep>> \o JoinWith(Tail(pieces), sep)

RECURSIVE LogText(_, _)
\* the output: every record, its 0x01, and the blank git puts after it
LogText(records, pad) ==
    IF records = <<>> THEN <<>>
    ELSE JoinWith(Head(records), FieldSep) \o <<RecordSep>> \o pad
         \o LogText(Tail(records), pad)

\* the blanks around records: none, or the newline between two commits
Pads == {<<>>, <<"\n">>}

\* what `git log` prints: the blank alone when there is no commit
LogOutput(records, pad) ==
    IF records = <<>> THEN pad ELSE LogText(records, pad)

\* str.replace(old, new, 1)
ReplaceFirst(s, old, new) ==
    LET i == Find(s, <<old>>)
    IN  IF i = 0 THEN s ELSE [s EXCEPT ![i] = new]

\* str.replace(old, '')
Remove(s, old) == SelectSeq(s, LAMBDA c : c # old)

\* analyzer.py:195-197  the text handed to datetime.fromisoformat
IsoText(date_field) == Remove(ReplaceFirst(Strip(date_field), " ", "T"), " ")

\* the text with every digit replaced by D
Shape(s) == [i \in 1..Len(s) |-> IF s[i] \in Digits THEN "D" ELSE s[i]]

DateTimeShape ==
    <<"D", "D", "D", "D", "-", "D", "D", "-", "D", "D", "T",
      "D", "D", ":", "D", "D", ":", "D", "D">>

\* the offset after the seconds: none, +HH:MM, +HHMM, or something else
OffsetKind(off) ==
    IF off = <<>> THEN "none"
    ELSE IF off[1] \notin {"+", "-"} THEN "bad"
    ELSE IF Tail(off) = <<"D", "D", ":", "D", "D">> THEN "colon"
    ELSE IF Tail(off) = <<"D", "D", "D", "D">> THEN "basic"
    ELSE "bad"

\* a datetime: aware when it carries an offset; clock tells a parsed
\* value from one read off the wall clock
DateTime(aware, clock, text) == [aware |-> aware, clock |-> clock, text |-> text]

\* datetime.now(): the local wall-clock time, without a timezone
DatetimeNow == DateTime(FALSE, "now", <<>>)

\* a fromisoformat that looks at the shape of the text only
FromIsoFormat_shape_only(text, basic_ok) ==
    LET sh == Shape(text)
        kind == OffsetKind(SubSeq(sh, 20, Len(sh)))
    IN  IF /\ Len(text) >= 19
           /\ SubSeq(sh, 1, 19) = DateTimeShape
           /\ kind \in {"none", "colon"} \cup (IF basic_ok THEN {"basic"} ELSE {})
        THEN Returned(DateTime(kind # "none", "parsed", text))
        ELSE Raised(ValueError("Invalid isoformat string"))

\* datetime.fromisoformat on YYYY-MM-DDTHH:MM:SS with an optional offset;
\* +HHMM is read from Python 3.11 on, before that it is a ValueError
FromIsoFormat(text, basic_ok) ==
    LET sh == Shape(text)
        kind == OffsetKind(SubSeq(sh, 20, Len(sh)))
        num(a, b) == ToInt(SubSeq(text, a, b))
    IN  IF /\ Len(text) >= 19
           /\ SubSeq(sh, 1, 19) = DateTimeShape
           /\ kind \in {"none", "colon"} \cup (IF basic_ok THEN {"basic"} ELSE {})
           /\ num(6, 7) \in 1..12 /\ num(9, 10) \in 1..31
           /\ num(12, 13) <= 23 /\ num(15, 16) <= 59 /\ num(18, 19) <= 59
        THEN Returned(DateTime(kind # "none", "parsed", text))
        ELSE Raised(ValueError("Invalid isoformat string"))

\* analyzer.py:193-208  one CommitInfo from the fields of an entry
CommitInfoOf(parts, basic_ok) ==
    LET parsed == FromIsoFormat(IsoText(parts[4]), basic_ok)
    IN  [hash |-> parts[1],
         author |-> parts[2],
         email |-> parts[3],
         date |-> IF parsed.kind = "raise" THEN DatetimeNow ELSE parsed.value,
         subject |-> parts[5],
         body |-> IF Len(parts) > 5 THEN parts[6] ELSE <<>>]

\* an entry kept only when it has a body field: len(parts) > 5
EnoughParts_six(parts) == Len(parts) > 5

\* analyzer.py:192  len(parts) >= 5
EnoughParts(parts) == Len(parts) >= 5

\* entries as they are split off, without entry.strip()
EntryText_raw(entry) == entry

\* analyzer.py:187  entry = entry.strip()
EntryText(entry) == Strip(entry)

\* GitAnalyzer.get_recent_commits, from the output of `git log` on
GetRecentCommits(output, basic_ok) ==
    IF Strip(output) = <<>> THEN <<>>
    ELSE LET entries == Split(output, RecordSep)
             stripped == [i \in 1..Len(entries) |-> EntryText(entries[i])]
             kept == SelectSeq(stripped,
                        LAMBDA e : e # <<>> /\ EnoughParts(Split(e, FieldSep)))
         IN  [i \in 1..Len(kept) |-> CommitInfoOf(Split(kept[i], FieldSep), basic_ok)]

LogInit ==
    /\ StatusIdle /\ RunGitIdle /\ DiffIdle /\ CmdIdle /\ ConfigIdle
    /\ LlmIdle /\ SlackIdle
    /\ log_records \in SeqsOf(LogRecords, 0, MaxRecords)
    /\ \E pad \in Pads : log_output = LogOutput(log_records, pad)
    /\ py311 \in BOOLEAN
    /\ commit_log = NoValue

\* git.get_recent_commits(days) once `git log` has answered
get_recent_commits ==
    /\ commit_log = NoValue
    /\ commit_log' = Returned(GetRecentCommits(log_output, py311))
    /\ UNCHANGED <<log_records, log_output, py311>>
    /\ UNCHANGED <<statusVars, runGitVars, diffVars, cmdVars, configVars>>
    /\ UNCHANGED <<slackVars, llmVars>>

LogNext == get_recent_commits

SpecLog == LogInit /\ [][LogNext]_vars

(***************************************************************************)
(* Configuration: config.py.                                               *)
(* The value of an environment variable is a text; Unset stands for a      *)
(* variable that is not in the environment.                                *)
(***************************************************************************)
ProviderGemini == <<"g", "e", "m", "i", "n", "i">>

ProviderOpenRouter == <<"o", "p", "e", "n", "r", "o", "u", "t", "e", "r">>

ProviderAuto == <<"a", "u", "t", "o">>

Environments ==
    [GEMINI_API_KEY : {Unset, <<"g">>},
     OPENROUTER_API_KEY : {Unset, <<"o">>},
     GIT_SUMMARIZER_PROVIDER : {Unset, ProviderGemini, ProviderOpenRouter},
     GIT_SUMMARIZER_DAYS : {Unset, <<"3">>},
     GIT_SUMMARIZER_MAX_DIFF : {Unset, <<"2">>, <<"x">>},
     SLACK_WEBHOOK_URL : {Unset, <<"u">>}]

\* the environment at a get_config call that is not the first one of the
\* process: the budget and the webhook URL may read differently by then
LaterEnvironments ==
    {e \in Environments :
        /\ e.GEMINI_API_KEY = Unset /\ e.OPENROUTER_API_KEY = Unset
        /\ e.GIT_SUMMARIZER_PROVIDER = Unset /\ e.GIT_SUMMARIZER_DAYS = Unset}

\* os.getenv(name, default)
Getenv(value, default) == IF value = Unset THEN default ELSE value

\* int(text) succeeds
IsInt(text) == text # <<>> /\ \A i \in 1..Len(text) : text[i] \in Digits

\* Config.load(): the field defaults read the environment
LoadConfig(env) ==
    LET daystext == Getenv(env.GIT_SUMMARIZER_DAYS, <<"7">>)
        maxdiff == Getenv(env.GIT_SUMMARIZER_MAX_DIFF, <<"8", "0", "0", "0">>)
    IN  IF ~IsInt(daystext) \/ ~IsInt(maxdiff)
        THEN Raised(ValueError("invalid literal for int()"))
        ELSE Returned(
               [gemini_api_key |-> Getenv(env.GEMINI_API_KEY, <<>>),
                openrouter_api_key |-> Getenv(env.OPENROUTER_API_KEY, <<>>),
                default_days |-> ToInt(daystext),
                max_diff_chars |-> ToInt(maxdiff),
                preferred_provider |-> Getenv(env.GIT_SUMMARIZER_PROVIDER, ProviderAuto),
                slack_webhook_url |-> Getenv(env.SLACK_WEBHOOK_URL, <<>>)])

\* a get_config that builds a new Config on every call
GetConfig_reload(cached, env) == LoadConfig(env)

\* get_config(): load on first use, the cached object afterwards
GetConfig(cached, env) ==
    IF cached # NoValue THEN Returned(cached) ELSE LoadConfig(env)

\* a resolution whose automatic choice tries Gemini first
GetActiveProvider_gemini_first(c) ==
    IF c.preferred_provider = ProviderGemini /\ c.gemini_api_key # <<>>
    THEN Returned("GEMINI")
    ELSE IF c.preferred_provider = ProviderOpenRouter /\ c.openrouter_api_key # <<>>
    THEN Returned("OPENROUTER")
    ELSE IF c.preferred_provider = ProviderAuto /\ c.gemini_api_key # <<>>
    THEN Returned("GEMINI")
    ELSE IF c.preferred_provider = ProviderAuto /\ c.openrouter_api_key # <<>>
    THEN Returned("OPENROUTER")
    ELSE Raised(ValueError("No LLM API key configured"))

\* Config.get_active_provider
GetActiveProvider(c) ==
    IF c.preferred_provider = ProviderGemini /\ c.gemini_api_key # <<>>
    THEN Returned("GEMINI")
    ELSE IF c.preferred_provider = ProviderOpenRouter /\ c.openrouter_api_key # <<>>
    THEN Returned("OPENROUTER")
    ELSE IF c.preferred_provider = ProviderAuto /\ c.openrouter_api_key # <<>>
    THEN Returned("OPENROUTER")
    ELSE IF c.preferred_provider = ProviderAuto /\ c.gemini_api_key # <<>>
    THEN Returned("GEMINI")
    ELSE Raised(ValueError("No LLM API key configured"))

\* the api_key argument of LLMClient: None, or a key
ApiKeyArgs == {<<>>, <<"k">>}

\* the provider argument of LLMClient: None, or a member of LLMProvider
ProviderArgs == {"None", "GEMINI", "OPENROUTER"}

\* LLMClient.__init__ once get_config() has returned c
LLMClientInit(c, api_key, provider_arg) ==
    LET chosen == IF provider_arg # "None" THEN Returned(provider_arg)
                  ELSE GetActiveProvider(c)
        key == IF api_key # <<>> THEN api_key
               ELSE IF chosen.value = "GEMINI" THEN c.gemini_api_key
               ELSE c.openrouter_api_key
    IN  IF chosen.kind = "raise" THEN chosen
        ELSE IF key = <<>>
        THEN Raised(ValueError("API key not provided"))
        ELSE Returned([provider |-> chosen.value, api_key |-> key])

ConfigInit ==
    /\ StatusIdle /\ RunGitIdle /\ DiffIdle /\ CmdIdle /\ LogIdle
    /\ LlmIdle /\ SlackIdle
    /\ environ \in Environments
    /\ provider = NoValue
    /\ llm_client = NoValue

\* get_config(): `_config` stays None when Config.load() raises
get_config ==
    /\ LET loaded == GetConfig(config, environ)
       IN  IF loaded.kind = "raise" THEN UNCHANGED config
           ELSE config' = loaded.value
    /\ UNCHANGED <<cmd, pc, opts, has_git_dir, git, files_to_analyze, commits,
                   selected_commits, days, llm_text, events>>
    /\ UNCHANGED <<environ, provider, llm_client>>
    /\ UNCHANGED <<statusVars, runGitVars, diffVars, logVars>>
    /\ UNCHANGED <<slackVars, llmVars>>

\* config.get_active_provider() on the loaded configuration
get_active_provider ==
    /\ config # NoValue
    /\ provider = NoValue
    /\ provider' = GetActiveProvider(config)
    /\ UNCHANGED <<environ, llm_client>>
    /\ UNCHANGED <<statusVars, runGitVars, diffVars, cmdVars, logVars>>
    /\ UNCHANGED <<slackVars, llmVars>>

\* LLMClient(api_key, provider): get_config(), the provider, the key
llm_client_init ==
    /\ llm_client = NoValue
    /\ \E api_key \in ApiKeyArgs, provider_arg \in ProviderArgs :
          LET loaded == GetConfig(config, environ)
          IN  IF loaded.kind = "raise"
              THEN /\ llm_client' = loaded
                   /\ UNCHANGED config
              ELSE /\ config' = loaded.value
                   /\ llm_client' = LLMClientInit(loaded.value, api_key, provider_arg)
    /\ UNCHANGED <<cmd, pc, opts, has_git_dir, git, files_to_analyze, commits,
                   selected_commits, days, llm_text, events>>
    /\ UNCHANGED <<environ, provider>>
    /\ UNCHANGED <<statusVars, runGitVars, diffVars, logVars>>
    /\ UNCHANGED <<slackVars, llmVars>>

(***************************************************************************)
(* llm/client.py: one request to the backend of the client.                *)
(***************************************************************************)
\* the Python values response.json() and response.text hand back
PyStr(s) == [type |-> "str", value |-> s]

PyNone == [type |-> "NoneType"]

PyDict(items) == [type |-> "dict", items |-> items]

PyList(items) == [type |-> "list", items |-> items]

Completion == <<"o", "k">>

\* a chat-completions body with one choice
ChatBody(content) ==
    PyDict([choices |->
        PyList(<<PyDict([message |-> PyDict([content |-> content])])>>)])

\* bodies the completions endpoint answers with: a text, an empty text,
\* a null content, an error object, no choice at all, and a non-JSON page
Bodies ==
    {[json |-> TRUE, data |-> ChatBody(PyStr(Completion))],
     [json |-> TRUE, data |-> ChatBody(PyStr(<<>>))],
     [json |-> TRUE, data |-> ChatBody(PyNone)],
     [json |-> TRUE, data |-> PyDict([error |-> PyStr(<<"e">>)])],
     [json |-> TRUE, data |-> PyDict([choices |-> PyList(<<>>)])],
     [json |-> FALSE]}

HTTPStatuses == {200, 401, 500}

\* what client.post produces: an exception of the transport, or a response
OpenRouterResponses ==
    {[kind |-> "transport_error"]}
    \cup {[kind |-> "response", status_code |-> s, body |-> b] :
             s \in HTTPStatuses, b \in Bodies}

\* what client.models.generate_content produces: an exception of the
\* library (transport, authentication, status), or a response with a text
GeminiResponses ==
    {[kind |-> "api_error"],
     [kind |-> "response", text |-> PyStr(Completion)],
     [kind |-> "response", text |-> PyStr(<<>>)]}

BackendResponses(provider_name) ==
    IF provider_name = "GEMINI" THEN GeminiResponses ELSE OpenRouterResponses

\* obj[key] on the outcome of an earlier subscript
Subscript(out, key) ==
    IF out.kind = "raise" THEN out
    ELSE IF out.value.type # "dict" THEN Raised([type |-> "TypeError"])
    ELSE IF key \in DOMAIN out.value.items
    THEN Returned(out.value.items[key])
    ELSE Raised([type |-> "KeyError"])

\* obj[0] on the outcome of an earlier subscript
FirstItem(out) ==
    IF out.kind = "raise" THEN out
    ELSE IF out.value.type # "list" THEN Raised([type |-> "KeyError"])
    ELSE IF Len(out.value.items) > 0
    THEN Returned(out.value.items[1])
    ELSE Raised([type |-> "IndexError"])

\* client.py:57-66: _generate_gemini
GenerateGemini(resp) ==
    IF resp.kind = "api_error"
    THEN Raised(RuntimeError("Gemini API error"))
    ELSE Returned(resp.text)

\* client.py:68-98: _generate_openrouter
GenerateOpenRouter(resp) ==
    IF resp.kind = "transport_error"
    THEN Raised(RuntimeError("OpenRouter API error"))
    ELSE IF resp.status_code >= 400
    THEN Raised(RuntimeError("OpenRouter API error: status"))
    ELSE IF ~resp.body.json
    THEN Raised(RuntimeError("OpenRouter API error"))
    ELSE LET content ==
                 Subscript(Subscript(FirstItem(
                     Subscript(Returned(resp.body.data), "choices")),
                     "message"), "content")
         IN  IF content.kind = "raise"
             THEN Raised(RuntimeError("OpenRouter API error"))
             ELSE content

\* client.py:48-55: _generate
Generate(client, resp) ==
    IF client.provider = "GEMINI" THEN GenerateGemini(resp)
    ELSE IF client.provider = "OPENROUTER" THEN GenerateOpenRouter(resp)
    ELSE Raised(ValueError("Unknown provider"))

\* llm._generate(prompt) on a constructed client
generate ==
    /\ llm_client.kind = "return"
    /\ generate_out = NoValue
    /\ \E resp \in BackendResponses(llm_client.value.provider) :
          /\ backend_response' = resp
          /\ generate_out' = Generate(llm_client.value, resp)
    /\ UNCHANGED llm_request
    /\ UNCHANGED <<statusVars, runGitVars, diffVars, cmdVars, logVars,
                   configVars, slackVars>>

ConfigNext == get_config \/ get_active_provider \/ llm_client_init \/ generate

SpecConfig == ConfigInit /\ [][ConfigNext]_vars

(***************************************************************************)
(* integrations/slack.py: the summary section of the Slack message.        *)
(***************************************************************************)
MaxShortLen == 3     \* longest of the short report texts
Margin == 10         \* report lengths this far on either side of the ceiling

\* slack.py:49: self._truncate(report_text, 2500)
SummaryLimit == 2500

ReportChars == <<"a", ".", "b", "c", "d">>

\* a report text of n characters, its characters shifted by k
ReportText(n, k) == [i \in 1..n |-> ReportChars[((i + k) % Len(ReportChars)) + 1]]

ReportLengths ==
    (0..MaxShortLen) \cup ((SummaryLimit - Margin)..(SummaryLimit + Margin))

ReportTexts == {ReportText(n, k) : n \in ReportLengths, k \in 0..2}

\* text[:n] of Python, n of either sign
SliceTo(text, n) ==
    IF n >= 0 THEN SubSeq(text, 1, MinOf({n, Len(text)}))
    ELSE SubSeq(text, 1, MaxOf({0, Len(text) + n}))

Ellipsis == <<".", ".", ".">>

\* a truncation that keeps max_length characters before the dots
SlackTruncate_keeps_max(text, max_length) ==
    IF Len(text) <= max_length THEN text
    ELSE SliceTo(text, max_length) \o Ellipsis

\* slack.py:91-95: SlackSender._truncate(text, max_length)
SlackTruncate(text, max_length) ==
    IF Len(text) <= max_length THEN text
    ELSE SliceTo(text, max_length - 3) \o Ellipsis

SlackInit ==
    /\ StatusIdle /\ RunGitIdle /\ DiffIdle /\ CmdIdle /\ LogIdle
    /\ ConfigIdle /\ LlmIdle
    /\ report_text \in ReportTexts
    /\ slack_summary = NoValue

\* slack.py:45-51: the summary section built by send_report
truncate_summary ==
    /\ slack_summary = NoValue
    /\ slack_summary' = Returned(SlackTruncate(report_text, SummaryLimit))
    /\ UNCHANGED report_text
    /\ UNCHANGED <<statusVars, runGitVars, diffVars, cmdVars, logVars,
                   configVars, llmVars>>

SlackNext == truncate_summary

SpecSlack == SlackInit /\ [][SlackNext]_vars

(***************************************************************************)
(* The commands of cli.py.                                                 *)
(***************************************************************************)
\* one thing the command did: a formatter call, a prompt, an outside call
Ev(op, arg) == [op |-> op, arg |-> arg]

\* the operations that leave the process
OutsideOps == {"git", "llm", "write", "webhook", "git_commit"}

CountOf(evs, op) == Cardinality({i \in 1..Len(evs) : evs[i].op = op})

\* the git queries of one analyzer call; query number f raises (0: none)
GitEvents(names, f) ==
    [i \in 1..(IF f = 0 THEN Len(names) ELSE f) |-> Ev("git", names[i])]

\* every selection a checkbox prompt can return: a sub-sequence of s
SubSeqsOf(s) ==
    {LET F[k \in 0..Len(s)] ==
             IF k = 0 THEN <<>>
             ELSE IF k \in I THEN Append(F[k - 1], s[k]) ELSE F[k - 1]
     IN  F[Len(s)] : I \in SUBSET (1..Len(s))}

FileLine(name, graph) == [kind |-> "file", name |-> name, graph |-> graph]

SummaryLine(ins, del) == [kind |-> "summary", nfiles |-> 1, ins |-> ins, del |-> del]

Entry(xy, path) == [xy |-> xy, path |-> path]

\* states of a repository as git reports them: the status entries, the
\* stat and the body of `git diff HEAD` and of `git diff --cached`
Snapshots ==
    { \* clean tree
      [entries |-> <<>>,
       stat_head |-> <<>>, body_head |-> <<>>,
       stat_cached |-> <<>>, body_cached |-> <<>>],
      \* one untracked file
      [entries |-> <<Entry(<<"?", "?">>, <<"b">>)>>,
       stat_head |-> <<>>, body_head |-> <<>>,
       stat_cached |-> <<>>, body_cached |-> <<>>],
      \* one unstaged modification
      [entries |-> <<Entry(<<" ", "M">>, <<"a">>)>>,
       stat_head |-> <<FileLine(<<"a">>, <<"1", " ", "+">>), SummaryLine(Some(1), None)>>,
       body_head |-> <<"x", "y", "x">>,
       stat_cached |-> <<>>, body_cached |-> <<>>],
      \* one staged modification and one untracked file
      [entries |-> <<Entry(<<"M", " ">>, <<"a">>), Entry(<<"?", "?">>, <<"b">>)>>,
       stat_head |-> <<FileLine(<<"a">>, <<"1", " ", "+">>), SummaryLine(Some(1), None)>>,
       body_head |-> <<"x", "y", "x">>,
       stat_cached |-> <<FileLine(<<"a">>, <<"1", " ", "+">>), SummaryLine(Some(1), None)>>,
       body_cached |-> <<"x", "y", "x">>],
      \* two files: one staged and modified again, one deleted
      [entries |-> <<Entry(<<"M", "M">>, <<"a">>), Entry(<<" ", "D">>, <<"c">>)>>,
       stat_head |-> <<FileLine(<<"a">>, <<"3", " ", "+", "+", "-">>),
                       FileLine(<<"c">>, <<"1", " ", "-">>),
                       SummaryLine(Some(2), Some(2))>>,
       body_head |-> <<"x", "y">>,
       stat_cached |-> <<FileLine(<<"a">>, <<"1", " ", "+">>), SummaryLine(Some(1), None)>>,
       body_cached |-> <<"x">>],
      \* a staged rename (git mv a d)
      [entries |-> <<Entry(<<"R", " ">>, <<"a", " ", "-", ">", " ", "d">>)>>,
       stat_head |-> <<FileLine(<<"a", " ", "=", ">", " ", "d">>, <<"0">>),
                       SummaryLine(Some(0), Some(0))>>,
       body_head |-> <<"r">>,
       stat_cached |-> <<FileLine(<<"a", " ", "=", ">", " ", "d">>, <<"0">>),
                         SummaryLine(Some(0), Some(0))>>,
       body_cached |-> <<"r">>],
      \* a new file staged, then deleted from the working tree
      [entries |-> <<Entry(<<"A", "D">>, <<"n">>)>>,
       stat_head |-> <<>>, body_head |-> <<>>,
       stat_cached |-> <<FileLine(<<"n">>, <<"1", " ", "+">>), SummaryLine(Some(1), None)>>,
       body_cached |-> <<"x", "y">>] }

\* the answers of the LLM backend to one request
LlmOutcomes == {Returned("text"), Raised(RuntimeError("API error"))}

FilesChangedText ==
    <<" ", "f", "i", "l", "e", "s", " ", "c", "h", "a", "n", "g", "e", "d", ",", " ", "+">>

\* a statistics line that counts the files of the whole change set
StatsOf_all_files(files, summary) ==
    ToDigits(Len(summary.files)) \o FilesChangedText
    \o ToDigits(summary.total_additions) \o <<",", " ", "-">>
    \o ToDigits(summary.total_deletions)

\* cli.py:154, 231: f"{len(files_to_analyze)} files changed, +{...}, -{...}"
StatsOf(files, summary) ==
    ToDigits(Len(files)) \o FilesChangedText
    \o ToDigits(summary.total_additions) \o <<",", " ", "-">>
    \o ToDigits(summary.total_deletions)

\* cli.py:155-159: llm.summarize_changes(diff, stats, files)
SummarizeRequest(summary, files) ==
    [method |-> "summarize_changes", diff |-> summary.raw_diff,
     stats |-> StatsOf(files, summary), files |-> files]

\* cli.py:232-235: llm.suggest_commit_message(diff, stats)
CommitMessageRequest(summary, files) ==
    [method |-> "suggest_commit_message", diff |-> summary.raw_diff,
     stats |-> StatsOf(files, summary)]

\* cli.py:313-325: one line of the commits summary, from date, subject, author
CommitLine(c) == [date |-> c.date, subject |-> c.subject, author |-> c.author]

\* cli.py:327, 338-342: llm.generate_report(commits_summary, total_commits, days)
ReportRequest(selected, n) ==
    [method |-> "generate_report",
     commits_summary |-> [i \in 1..Len(selected) |-> CommitLine(selected[i])],
     total_commits |-> Len(selected), days |-> n]

\* a client that sends the request again after a failure
LlmCall_retry(name, out) ==
    IF out.kind = "raise" THEN <<Ev("llm", name), Ev("llm", name)>>
    ELSE <<Ev("llm", name)>>

\* client.py:48-98: one call of _generate sends one request, whatever
\* its outcome
LlmCall(name, out) == <<Ev("llm", name)>>

CmdInit ==
    /\ StatusIdle /\ RunGitIdle /\ DiffIdle /\ CmdIdle /\ ConfigIdle
    /\ LlmIdle /\ SlackIdle
    /\ log_records = <<>>
    /\ log_output = <<>>
    /\ py311 \in BOOLEAN
    /\ commit_log = NoValue

\* click dispatches one command with its options (cli.py:81-85, 178-181,
\* 268-274)
invoke ==
    /\ pc = "idle"
    /\ \E c \in {"status", "commit", "report"}, i \in BOOLEAN, d \in BOOLEAN,
          w \in {None, Some(2)}, sp \in BOOLEAN, sl \in BOOLEAN, g \in BOOLEAN :
          /\ c = "status" => (w = None /\ ~sp /\ ~sl)
          /\ c = "commit" => (~d /\ w = None /\ ~sp /\ ~sl)
          /\ c = "report" => ~d
          /\ cmd' = c
          /\ opts' = [interactive |-> i, show_diff |-> d, days |-> w,
                      save_path |-> sp, slack |-> sl]
          /\ has_git_dir' = g
    /\ pc' = "validate"
    /\ UNCHANGED <<git, config, files_to_analyze, commits, selected_commits, days,
                   llm_text, events>>
    /\ UNCHANGED <<statusVars, runGitVars, diffVars>>
    /\ UNCHANGED <<logVars, configVars>>
    /\ UNCHANGED <<slackVars, llmVars>>

\* a constructor that skips _validate_repo
GitAnalyzerInit_unchecked(git_dir_exists) == Returned("GitAnalyzer")

\* GitAnalyzer.__init__ with _validate_repo
GitAnalyzerInit(git_dir_exists) ==
    IF git_dir_exists THEN Returned("GitAnalyzer")
    ELSE Raised(ValueError("Not a git repository"))

\* the first step of each command
FirstStep(c) ==
    CASE c = "status" -> "repo_status"
      [] c = "commit" -> "commit_diff"
      [] c = "report" -> "recent_commits"

\* cli.py:87-96, 183-191, 276-284: header, GitAnalyzer(path)
validate_repo ==
    /\ pc = "validate"
    /\ git' = GitAnalyzerInit(has_git_dir)
    /\ IF git'.kind = "raise"
       THEN /\ events' = events \o <<Ev("print_header", cmd),
                                     Ev("print_error", git'.error.message)>>
            /\ pc' = "done"
       ELSE /\ events' = events \o <<Ev("print_header", cmd)>>
            /\ pc' = FirstStep(cmd)
    /\ UNCHANGED <<cmd, opts, has_git_dir, config, files_to_analyze, commits,
                   selected_commits, days, llm_text>>
    /\ UNCHANGED <<statusVars, runGitVars, diffVars>>
    /\ UNCHANGED <<logVars, configVars>>
    /\ UNCHANGED <<slackVars, llmVars>>

\* an outermost handler that reports the exception and raises it again
Caught_reraised == "crashed"

\* cli.py:174-175, 264-265, 396-397: where the command is once its
\* outermost handler has printed the exception: the function returns
Caught == "done"

\* the outermost handler of a command: `except Exception as e`
Unexpected == Ev("print_error", "Unexpected error")

\* cli.py:98-106: git.get_repo_status(), formatter.print_status
status_repo_status ==
    /\ pc = "repo_status"
    /\ \E snap \in Snapshots, f \in 0..2, b \in BranchOutputs :
          LET queries == GitEvents(<<"status --porcelain", "branch --show-current">>, f)
              result == GetRepoStatus(PorcelainText(snap.entries), b)
          IN  /\ worktree' = snap.entries
              /\ IF f # 0 \/ result.kind = "raise"
                 THEN /\ UNCHANGED repo_status
                      /\ events' = events \o queries \o <<Unexpected>>
                      /\ pc' = Caught
                 ELSE /\ repo_status' = result
                      /\ events' = events \o queries \o <<Ev("print_status", "status")>>
                      /\ pc' = "last_activity"
    /\ UNCHANGED <<cmd, opts, has_git_dir, git, config, files_to_analyze, commits,
                   selected_commits, days, llm_text>>
    /\ UNCHANGED <<runGitVars, diffVars>>
    /\ UNCHANGED <<logVars, configVars>>
    /\ UNCHANGED <<slackVars, llmVars>>

\* cli.py:108-110: git.get_last_activity(), formatter.print_last_activity
status_last_activity ==
    /\ pc = "last_activity"
    /\ \E f \in 0..1 :
          LET queries == GitEvents(<<"log -1">>, f)
          IN  IF f # 0
              THEN /\ events' = events \o queries \o <<Unexpected>>
                   /\ pc' = Caught
              ELSE /\ events' = events \o queries
                                \o <<Ev("print_last_activity", "activity")>>
                   /\ pc' = "check_dirty"
    /\ UNCHANGED <<cmd, opts, has_git_dir, git, config, files_to_analyze, commits,
                   selected_commits, days, llm_text>>
    /\ UNCHANGED <<statusVars, runGitVars, diffVars>>
    /\ UNCHANGED <<logVars, configVars>>
    /\ UNCHANGED <<slackVars, llmVars>>

\* the snapshot git answers from: the one the status query saw
SnapshotOf(entries) == {snap \in Snapshots : snap.entries = entries}

\* a test that goes on to the diff when only untracked files are there
NothingToSummarize_untracked(status) ==
    ~status.is_dirty /\ status.untracked = <<>>

\* cli.py:113: `not status.is_dirty`
NothingToSummarize(status) == ~status.is_dirty

\* cli.py:112-119: the no-changes exit, get_config(), get_uncommitted_diff
status_check_dirty ==
    /\ pc = "check_dirty"
    /\ IF NothingToSummarize(repo_status.value)
       THEN /\ events' = events \o <<Ev("print_no_changes", "no changes")>>
            /\ pc' = "done"
            /\ UNCHANGED <<config, diffVars>>
       ELSE \E env \in Environments, snap \in SnapshotOf(worktree), f \in 0..2 :
              LET loaded == GetConfig(config, env)
                  queries == GitEvents(<<"diff HEAD", "diff --stat HEAD">>, f)
              IN  IF loaded.kind = "raise"
                  THEN /\ events' = events \o <<Ev("get_config", "load"), Unexpected>>
                       /\ pc' = Caught
                       /\ UNCHANGED <<config, diffVars>>
                  ELSE /\ config' = loaded.value
                       /\ IF f # 0
                          THEN /\ events' = events \o <<Ev("get_config", "load")>>
                                            \o queries \o <<Unexpected>>
                               /\ pc' = Caught
                               /\ UNCHANGED diffVars
                          ELSE /\ events' = events \o <<Ev("get_config", "load")>>
                                            \o queries
                               /\ raw_diff' = snap.body_head
                               /\ stat_entries' = snap.stat_head
                               /\ max_chars' = Some(loaded.value.max_diff_chars)
                               /\ diff_summary' =
                                     Returned(ParseDiffStats(
                                         snap.body_head, StatText(snap.stat_head),
                                         Some(loaded.value.max_diff_chars)))
                               /\ pc' = "select_files"
                               /\ UNCHANGED commit_diff
    /\ UNCHANGED <<cmd, opts, has_git_dir, git, files_to_analyze, commits,
                   selected_commits, days, llm_text>>
    /\ UNCHANGED <<statusVars, runGitVars>>
    /\ UNCHANGED <<logVars, configVars>>
    /\ UNCHANGED <<slackVars, llmVars>>

\* what the command shows between the selection and the LLM call
\* (cli.py:132-143 for status, 216-220 for commit)
DisplayEvents ==
    IF cmd = "status"
    THEN <<Ev("print_diff_stats", "stats"), Ev("print_file_tree", "tree")>>
         \o (IF opts.show_diff THEN <<Ev("print_diff_preview", "diff")>> ELSE <<>>)
    ELSE <<Ev("print_diff_stats", "stats")>>

\* cli.py:121-143 and 205-220: the interactive file selection, the stats
select_files ==
    /\ pc = "select_files"
    /\ IF opts.interactive /\ diff_summary.value.files # <<>>
       THEN \E sel \in SubSeqsOf(diff_summary.value.files), raises \in BOOLEAN :
              IF raises
              THEN /\ events' = events \o <<Ev("select_files", "prompt"), Unexpected>>
                   /\ pc' = Caught
                   /\ UNCHANGED files_to_analyze
              ELSE /\ files_to_analyze' = sel
                   /\ IF sel = <<>>
                      THEN /\ events' = events \o <<Ev("select_files", "prompt"),
                                                    Ev("print_warning", "No files selected")>>
                           /\ pc' = "done"
                      ELSE /\ events' = events \o <<Ev("select_files", "prompt")>>
                                        \o DisplayEvents
                           /\ pc' = "generate"
       ELSE /\ files_to_analyze' = diff_summary.value.files
            /\ events' = events \o DisplayEvents
            /\ pc' = "generate"
    /\ UNCHANGED <<cmd, opts, has_git_dir, git, config, commits, selected_commits,
                   days, llm_text>>
    /\ UNCHANGED <<statusVars, runGitVars, diffVars>>
    /\ UNCHANGED <<logVars, configVars>>
    /\ UNCHANGED <<slackVars, llmVars>>

\* cli.py:145-172: config.validate(), LLMClient(), summarize_changes
status_summarize ==
    /\ pc = "generate" /\ cmd = "status"
    /\ IF GetActiveProvider(config).kind = "raise"
       THEN /\ events' = events \o <<Ev("print_warning", "No LLM API key configured"),
                                     Ev("print_info", "Run without AI summary")>>
            /\ UNCHANGED <<llm_text, llm_request>>
       ELSE \E out \in LlmOutcomes :
              /\ llm_request' = SummarizeRequest(diff_summary.value, files_to_analyze)
              /\ llm_text' = out
              /\ events' = events \o LlmCall("summarize_changes", out)
                    \o (IF out.kind = "raise"
                        THEN <<Ev("print_error", "AI summary failed")>>
                        ELSE <<Ev("print_summary", "summary")>>)
    /\ pc' = "done"
    /\ UNCHANGED <<cmd, opts, has_git_dir, git, config, files_to_analyze, commits,
                   selected_commits, days>>
    /\ UNCHANGED <<statusVars, runGitVars, diffVars>>
    /\ UNCHANGED <<logVars, configVars>>
    /\ UNCHANGED <<slackVars, backend_response, generate_out>>

\* a change set judged by its line totals instead of its file list
NoChanges_totals(summary) ==
    summary.total_additions = 0 /\ summary.total_deletions = 0

\* cli.py:197, 200: `not diff_summary.files`
NoChanges(summary) == summary.files = <<>>

\* cli.py:193-203: get_config(), the staged diff, else the uncommitted diff
commit_get_diff ==
    /\ pc = "commit_diff"
    /\ \E env \in Environments, snap \in Snapshots, f \in 0..4 :
          LET loaded == GetConfig(config, env)
              names == <<"diff --cached", "diff --stat --cached",
                         "diff HEAD", "diff --stat HEAD">>
              budget == Some(loaded.value.max_diff_chars)
              staged == ParseDiffStats(snap.body_cached, StatText(snap.stat_cached), budget)
              uncommitted == ParseDiffStats(snap.body_head, StatText(snap.stat_head), budget)
          IN  IF loaded.kind = "raise"
              THEN /\ f = 0
                   /\ events' = events \o <<Ev("get_config", "load"), Unexpected>>
                   /\ pc' = Caught
                   /\ UNCHANGED <<config, worktree, diffVars>>
              ELSE /\ config' = loaded.value
                   /\ worktree' = snap.entries
                   /\ max_chars' = budget
                   /\ UNCHANGED commit_diff
                   /\ IF f \in 1..2
                      THEN /\ events' = events \o <<Ev("get_config", "load")>>
                                        \o GitEvents(names, f) \o <<Unexpected>>
                           /\ pc' = Caught
                           /\ UNCHANGED <<raw_diff, stat_entries, diff_summary>>
                      ELSE IF ~NoChanges(staged)
                      THEN /\ f = 0
                           /\ events' = events \o <<Ev("get_config", "load")>>
                                        \o GitEvents(SubSeq(names, 1, 2), 0)
                           /\ raw_diff' = snap.body_cached
                           /\ stat_entries' = snap.stat_cached
                           /\ diff_summary' = Returned(staged)
                           /\ pc' = "select_files"
                      ELSE IF f \in 3..4
                      THEN /\ events' = events \o <<Ev("get_config", "load")>>
                                        \o GitEvents(names, f) \o <<Unexpected>>
                           /\ pc' = Caught
                           /\ UNCHANGED <<raw_diff, stat_entries, diff_summary>>
                      ELSE /\ raw_diff' = snap.body_head
                           /\ stat_entries' = snap.stat_head
                           /\ diff_summary' = Returned(uncommitted)
                           /\ IF NoChanges(uncommitted)
                              THEN /\ events' = events \o <<Ev("get_config", "load")>>
                                        \o GitEvents(names, 0)
                                        \o <<Ev("print_no_changes", "no changes")>>
                                   /\ pc' = "done"
                              ELSE /\ events' = events \o <<Ev("get_config", "load")>>
                                        \o GitEvents(names, 0)
                                        \o <<Ev("print_warning", "No staged changes")>>
                                   /\ pc' = "select_files"
    /\ UNCHANGED <<cmd, opts, has_git_dir, git, files_to_analyze, commits,
                   selected_commits, days, llm_text>>
    /\ UNCHANGED <<repo_status, runGitVars>>
    /\ UNCHANGED <<logVars, configVars>>
    /\ UNCHANGED <<slackVars, llmVars>>

\* a command that goes on after a failed generation
AfterGenerate_goes_on(out, next) == next

\* cli.py:242-245, 349-352: the `return` of the handlers around the LLM
\* call; next is the step after a completed generation
AfterGenerate(out, next) == IF out.kind = "raise" THEN "done" ELSE next

\* cli.py:222-247: config.validate(), LLMClient(), suggest_commit_message
commit_generate ==
    /\ pc = "generate" /\ cmd = "commit"
    /\ IF GetActiveProvider(config).kind = "raise"
       THEN /\ events' = events \o <<Ev("print_error", "No LLM API key configured")>>
            /\ pc' = "done"
            /\ UNCHANGED <<llm_text, llm_request>>
       ELSE \E out \in LlmOutcomes :
              /\ llm_request' = CommitMessageRequest(diff_summary.value, files_to_analyze)
              /\ llm_text' = out
              /\ IF out.kind = "raise"
                 THEN /\ events' = events \o LlmCall("suggest_commit_message", out)
                              \o <<Ev("print_error", "Failed to generate commit message")>>
                      /\ pc' = AfterGenerate(out, "confirm")
                 ELSE /\ events' = events \o LlmCall("suggest_commit_message", out)
                              \o <<Ev("print_commit_message", out.value)>>
                      /\ pc' = IF opts.interactive
                               THEN AfterGenerate(out, "confirm") ELSE "done"
    /\ UNCHANGED <<cmd, opts, has_git_dir, git, config, files_to_analyze, commits,
                   selected_commits, days>>
    /\ UNCHANGED <<statusVars, runGitVars, diffVars>>
    /\ UNCHANGED <<logVars, configVars>>
    /\ UNCHANGED <<slackVars, backend_response, generate_out>>

\* a confirmation that takes every answer for a yes
Confirmed_any(answer) == answer # "raise"

\* cli.py:251: the truth value confirm_action hands back
Confirmed(answer) == answer = "yes"

\* cli.py:253-258: the command line of the commit
CommitArgs(message) == <<"git", "commit", "-m", message>>

\* cli.py:249-262: confirm_action, subprocess.run(["git", "commit", ...])
commit_confirm ==
    /\ pc = "confirm"
    /\ \E answer \in {"yes", "no", "raise"}, ran \in {"ok", "failed", "FileNotFoundError"} :
          /\ answer # "yes" => ran = "ok"
          /\ events' = events \o <<Ev("confirm_action", answer)>> \o
                (CASE answer = "raise" -> <<Unexpected>>
                   [] ~Confirmed(answer) /\ answer # "raise" -> <<>>
                   [] Confirmed(answer) /\ answer # "raise" /\ ran = "ok" ->
                        <<Ev("git_commit", CommitArgs(llm_text.value)),
                          Ev("print_success", "Commit created")>>
                   [] Confirmed(answer) /\ answer # "raise" /\ ran = "failed" ->
                        <<Ev("git_commit", CommitArgs(llm_text.value)),
                          Ev("print_error", "Commit failed")>>
                   [] Confirmed(answer) /\ answer # "raise"
                      /\ ran = "FileNotFoundError" ->
                        <<Ev("git_commit", CommitArgs(llm_text.value)), Unexpected>>)
          /\ pc' = IF answer = "raise" \/ ran = "FileNotFoundError"
                   THEN Caught ELSE "done"
    /\ UNCHANGED <<cmd, opts, has_git_dir, git, config, files_to_analyze, commits,
                   selected_commits, days, llm_text>>
    /\ UNCHANGED <<statusVars, runGitVars, diffVars>>
    /\ UNCHANGED <<logVars, configVars>>
    /\ UNCHANGED <<slackVars, llmVars>>

\* the histories the report command of the model meets: no commit, a
\* record cut short, one commit, two commits, a commit with a bad date
ReportLogs ==
    { <<>>,
      <<SubSeq(FullRecord(<<"h">>, GitIsoDate, <<"s">>), 1, 4)>>,
      <<FullRecord(<<"h">>, GitIsoDate, <<"s">>)>>,
      <<FullRecord(<<"g">>, GitIsoDate, <<"t">>),
        FullRecord(<<"h">>, GitIsoDate, <<"s">>)>>,
      <<FullRecord(<<"h">>, <<"x">>, <<"s">>)>> }

\* a report that goes on whatever the number of commits
NoCommits_unchecked(cs) == FALSE

\* cli.py:295  `not commits`
NoCommits(cs) == cs = <<>>

\* the periods the select_days prompt of the model answers with
SelectDaysAnswers == {1, 7}

\* cli.py:286-302: the period, git.get_recent_commits, the commits table
report_recent_commits ==
    /\ pc = "recent_commits"
    /\ \E d \in SelectDaysAnswers, raises \in BOOLEAN, f \in 0..1,
          recs \in ReportLogs, pad \in Pads :
          LET asks == opts.interactive /\ opts.days = None
              n == IF asks THEN d ELSE IF opts.days = None THEN 7 ELSE opts.days.n
              asked == IF asks THEN <<Ev("select_days", "prompt")>> ELSE <<>>
              output == LogOutput(recs, pad)
              cs == GetRecentCommits(output, py311)
          IN  /\ ~asks => (d = 7 /\ ~raises)
              /\ IF raises
                 THEN /\ f = 0 /\ recs = <<>> /\ pad = <<>>
                      /\ events' = events \o asked \o <<Unexpected>>
                      /\ pc' = Caught
                      /\ UNCHANGED <<days, commits, log_records, log_output, commit_log>>
                 ELSE /\ days' = Some(n)
                      /\ IF f # 0
                         THEN /\ recs = <<>> /\ pad = <<>>
                              /\ events' = events \o asked \o GitEvents(<<"log">>, f)
                                           \o <<Unexpected>>
                              /\ pc' = Caught
                              /\ UNCHANGED <<commits, log_records, log_output, commit_log>>
                         ELSE /\ log_records' = recs
                              /\ log_output' = output
                              /\ commit_log' = Returned(cs)
                              /\ commits' = cs
                              /\ IF NoCommits(cs)
                                 THEN /\ events' = events \o asked
                                          \o GitEvents(<<"log">>, 0)
                                          \o <<Ev("print_warning", "No commits found")>>
                                      /\ pc' = "done"
                                 ELSE /\ events' = events \o asked
                                          \o GitEvents(<<"log">>, 0)
                                          \o <<Ev("print_info", "Found commits"),
                                               Ev("print_commits_table", "commits")>>
                                      /\ pc' = "select_commits"
    /\ UNCHANGED <<cmd, opts, has_git_dir, git, config, files_to_analyze,
                   selected_commits, llm_text>>
    /\ UNCHANGED <<statusVars, runGitVars, diffVars>>
    /\ UNCHANGED <<py311, configVars>>
    /\ UNCHANGED <<slackVars, llmVars>>

\* cli.py:304-328: the interactive commit selection, the commits summary
report_select_commits ==
    /\ pc = "select_commits"
    /\ IF opts.interactive
       THEN \E sel \in SubSeqsOf(commits), raises \in BOOLEAN :
              IF raises
              THEN /\ sel = <<>>
                   /\ events' = events \o <<Ev("select_commits", "prompt"), Unexpected>>
                   /\ pc' = Caught
                   /\ UNCHANGED selected_commits
              ELSE /\ selected_commits' = sel
                   /\ IF sel = <<>>
                      THEN /\ events' = events \o <<Ev("select_commits", "prompt"),
                                            Ev("print_warning", "No commits selected")>>
                           /\ pc' = "done"
                      ELSE /\ events' = events \o <<Ev("select_commits", "prompt"),
                                            Ev("print_info", "Selected commits")>>
                           /\ pc' = "generate"
       ELSE /\ selected_commits' = commits
            /\ events' = events
            /\ pc' = "generate"
    /\ UNCHANGED <<cmd, opts, has_git_dir, git, config, files_to_analyze, commits,
                   days, llm_text>>
    /\ UNCHANGED <<statusVars, runGitVars, diffVars>>
    /\ UNCHANGED <<logVars, configVars>>
    /\ UNCHANGED <<slackVars, llmVars>>

\* cli.py:330-354: get_config(), config.validate(), generate_report
report_generate ==
    /\ pc = "generate" /\ cmd = "report"
    /\ \E env \in Environments, out \in LlmOutcomes :
          LET loaded == GetConfig(config, env)
          IN  IF loaded.kind = "raise"
              THEN /\ out.kind = "return"
                   /\ events' = events \o <<Ev("get_config", "load"),
                                            Ev("print_error", loaded.error.message)>>
                   /\ pc' = "done"
                   /\ UNCHANGED <<config, llm_text, llm_request>>
              ELSE /\ config' = loaded.value
                   /\ IF GetActiveProvider(loaded.value).kind = "raise"
                      THEN /\ out.kind = "return"
                           /\ events' = events \o <<Ev("get_config", "load"),
                                 Ev("print_error", "No LLM API key configured")>>
                           /\ pc' = "done"
                           /\ UNCHANGED <<llm_text, llm_request>>
                      ELSE /\ llm_request' = ReportRequest(selected_commits, days.n)
                           /\ llm_text' = out
                           /\ IF out.kind = "raise"
                              THEN /\ events' = events \o <<Ev("get_config", "load")>>
                                         \o LlmCall("generate_report", out)
                                         \o <<Ev("print_error", "Failed to generate report")>>
                                   /\ pc' = AfterGenerate(out, "save")
                              ELSE /\ events' = events \o <<Ev("get_config", "load")>>
                                         \o LlmCall("generate_report", out)
                                   /\ pc' = AfterGenerate(out, "save")
    /\ UNCHANGED <<cmd, opts, has_git_dir, git, files_to_analyze, commits,
                   selected_commits, days>>
    /\ UNCHANGED <<statusVars, runGitVars, diffVars>>
    /\ UNCHANGED <<logVars, configVars>>
    /\ UNCHANGED <<slackVars, backend_response, generate_out>>

\* cli.py:356-370: the Markdown file, when --save is given
report_save ==
    /\ pc = "save"
    /\ IF opts.save_path
       THEN \E written \in BOOLEAN :
              events' = events \o
                 (IF written
                  THEN <<Ev("write", "markdown"), Ev("print_success", "Report saved")>>
                  ELSE <<Ev("print_error", "Failed to save report")>>)
       ELSE events' = events
    /\ pc' = "slack"
    /\ UNCHANGED <<cmd, opts, has_git_dir, git, config, files_to_analyze, commits,
                   selected_commits, days, llm_text>>
    /\ UNCHANGED <<statusVars, runGitVars, diffVars>>
    /\ UNCHANGED <<logVars, configVars>>
    /\ UNCHANGED <<slackVars, llmVars>>

\* cli.py:372-394: the webhook, when --slack is given; the report itself
report_slack ==
    /\ pc = "slack"
    /\ IF opts.slack
       THEN \E env \in LaterEnvironments, sent \in BOOLEAN :
              LET loaded == GetConfig(config, env)
              IN  IF loaded.kind = "raise"
                  THEN /\ sent
                       /\ events' = events \o <<Ev("get_config", "cached"), Unexpected>>
                       /\ UNCHANGED config
                  ELSE /\ config' = loaded.value
                       /\ IF loaded.value.slack_webhook_url = <<>>
                          THEN /\ sent
                               /\ events' = events \o <<Ev("get_config", "cached"),
                                     Ev("print_error", "Slack webhook URL not configured"),
                                     Ev("print_report", "report")>>
                          ELSE events' = events
                                 \o <<Ev("get_config", "cached"), Ev("webhook", "post")>>
                                 \o (IF sent
                                     THEN <<Ev("print_success", "Report sent to Slack")>>
                                     ELSE <<Ev("print_error", "Failed to send to Slack")>>)
                                 \o <<Ev("print_report", "report")>>
       ELSE /\ events' = events \o <<Ev("print_report", "report")>>
            /\ UNCHANGED config
    /\ pc' = "done"
    /\ UNCHANGED <<cmd, opts, has_git_dir, git, files_to_analyze, commits,
                   selected_commits, days, llm_text>>
    /\ UNCHANGED <<statusVars, runGitVars, diffVars>>
    /\ UNCHANGED <<logVars, configVars>>
    /\ UNCHANGED <<slackVars, llmVars>>

CmdNext ==
    \/ invoke
    \/ validate_repo
    \/ status_repo_status
    \/ status_last_activity
    \/ status_check_dirty
    \/ select_files
    \/ status_summarize
    \/ commit_get_diff
    \/ commit_generate
    \/ commit_confirm
    \/ report_recent_commits
    \/ report_select_commits
    \/ report_generate
    \/ report_save
    \/ report_slack

Spec == CmdInit /\ [][CmdNext]_vars

(***************************************************************************)
(* Status parsing: claims C1 - C3.                                         *)
(***************************************************************************)
\* the paths of the entries that satisfy Test, in entry order
EntryPaths(entries, Test(_)) ==
    LET sel == SelectSeq(entries, Test)
    IN  [i \in 1..Len(sel) |-> sel[i].path]

\* C1: for every porcelain output, every line `XY path` (the first line
\* included) puts its path into staged iff X is one of M, A, D, R, C, into
\* modified iff Y is M and into untracked iff XY is `??`; the three lists
\* keep line order and multiplicity.
C1_StatusLists ==
    repo_status.kind = "return" =>
        /\ repo_status.value.staged =
              EntryPaths(worktree, LAMBDA e : e.xy[1] \in {"M", "A", "D", "R", "C"})
        /\ repo_status.value.modified =
              EntryPaths(worktree, LAMBDA e : e.xy[2] = "M")
        /\ repo_status.value.untracked =
              EntryPaths(worktree, LAMBDA e : e.xy = <<"?", "?">>)

\* C2: a line whose index character is one of M, A, D, R, C and whose
\* working-tree character is M contributes its path to both staged and
\* modified of the returned status.
C2_StagedAndModified ==
    repo_status.kind = "return" =>
        \A i \in 1..Len(worktree) :
            (worktree[i].xy[1] \in {"M", "A", "D", "R", "C"} /\ worktree[i].xy[2] = "M")
            => /\ worktree[i].path \in Range(repo_status.value.staged)
               /\ worktree[i].path \in Range(repo_status.value.modified)

C2_Witness ==
    /\ repo_status.kind = "return"
    /\ Len(worktree) = 2
    /\ worktree[2].xy = <<"M", "M">>
    /\ worktree[2].path \in Range(repo_status.value.staged)
    /\ worktree[2].path \in Range(repo_status.value.modified)

\* C3: every returned status has is_dirty = (staged non-empty or modified
\* non-empty); an output of untracked lines only, and an empty output, give
\* is_dirty = FALSE.
C3_IsDirty ==
    repo_status.kind = "return" =>
        /\ repo_status.value.is_dirty =
              (Len(repo_status.value.staged) > 0 \/ Len(repo_status.value.modified) > 0)
        /\ (\A i \in 1..Len(worktree) : worktree[i].xy = <<"?", "?">>)
              => repo_status.value.is_dirty = FALSE

C3_Witness ==
    /\ repo_status.kind = "return"
    /\ Len(worktree) > 0
    /\ \A i \in 1..Len(worktree) : worktree[i].xy = <<"?", "?">>
    /\ Len(repo_status.value.untracked) = Len(worktree)
    /\ repo_status.value.is_dirty = FALSE

(***************************************************************************)
(* The command runner: claims C5, C6.                                      *)
(***************************************************************************)
IsGitError(out) ==
    /\ out.kind = "raise"
    /\ out.error.type = "RuntimeError"
    /\ Prefix(out.error.message, Len(GitErrorPrefix)) = GitErrorPrefix

\* C5 as stated: _run_git fails with `Git error: ...` whenever standard
\* error contains `fatal:`, for every exit code including zero, and never
\* returns standard output then.
C5_FatalAnyExit ==
    (proc.kind = "completed" /\ Contains(proc.stderr, <<"f", "a", "t", "a", "l", ":">>))
        => IsGitError(run_git_out)

\* C5 amended: _run_git fails with `Git error: ...` whenever the exit code
\* is non-zero and standard error contains `fatal:`; with exit code zero it
\* returns standard output, also when standard error contains `fatal:`.
C5_FatalNonZeroExit ==
    proc.kind = "completed" =>
        /\ (proc.returncode # 0 /\ Contains(proc.stderr, <<"f", "a", "t", "a", "l", ":">>))
              => IsGitError(run_git_out)
        /\ proc.returncode = 0 => run_git_out = Returned(proc.stdout)

C5_Witness ==
    /\ proc.kind = "completed"
    /\ proc.returncode = 128
    /\ Contains(proc.stderr, <<"f", "a", "t", "a", "l", ":">>)
    /\ proc.stdout # <<>>
    /\ IsGitError(run_git_out)

\* C6: a non-zero exit whose standard error lacks `fatal:` (empty standard
\* error included) raises nothing: the caller gets exactly standard output.
C6_NonFatalTolerated ==
    (/\ proc.kind = "completed"
     /\ proc.returncode # 0
     /\ ~Contains(proc.stderr, <<"f", "a", "t", "a", "l", ":">>))
        => run_git_out = Returned(proc.stdout)

C6_Witness ==
    /\ proc.kind = "completed"
    /\ proc.returncode = 1
    /\ proc.stderr # <<>>
    /\ Contains(proc.stderr, <<"f", "a", "t", "a", "l">>)
    /\ ~Contains(proc.stderr, <<"f", "a", "t", "a", "l", ":">>)
    /\ proc.stdout # <<>>
    /\ run_git_out = Returned(proc.stdout)

(***************************************************************************)
(* Diff statistics: claims C8 - C10.                                       *)
(***************************************************************************)
\* the text before the first bar of a line, surrounding whitespace removed
BeforeFirstBar(line) ==
    LET bar == MinOf({i \in 1..Len(line) : line[i] = "|"})
        body == {i \in 1..(bar - 1) : line[i] \notin {" ", "\t", "\n", "\r"}}
    IN  IF body = {} THEN <<>> ELSE SubSeq(line, MinOf(body), MaxOf(body))

\* C8: files has one entry per summary line that contains a vertical bar,
\* in line order, each the text before the first bar with surrounding
\* whitespace removed; lines without a bar contribute nothing.
C8_StatFiles ==
    diff_summary.kind = "return" =>
        LET barred == SelectSeq(stat_entries,
                                LAMBDA e : "|" \in Range(StatLineText(e)))
        IN  diff_summary.value.files =
                [i \in 1..Len(barred) |-> BeforeFirstBar(StatLineText(barred[i]))]

C8_Witness ==
    /\ diff_summary.kind = "return"
    /\ Len(stat_entries) = 2
    /\ stat_entries[1].kind = "file" /\ stat_entries[1].name = <<"d", "|", "e">>
    /\ stat_entries[2].kind = "summary"
    /\ diff_summary.value.files = << <<"d">> >>

\* the count carried by the first entry that prints this part, 0 if none
FirstCount(entries, Part(_)) ==
    LET sel == SelectSeq(entries, LAMBDA e : e.kind = "summary" /\ Part(e).some)
    IN  IF sel = <<>> THEN 0 ELSE Part(sel[1]).n

\* C9: total_additions is the integer of the first `<integer>
\* insertion(s)(+)` of the summary text and 0 when there is none;
\* total_deletions likewise from `<integer> deletion(s)(-)`; the two are
\* independent of each other and of files.
C9_Totals ==
    diff_summary.kind = "return" =>
        /\ diff_summary.value.total_additions =
              FirstCount(stat_entries, LAMBDA e : e.ins)
        /\ diff_summary.value.total_deletions =
              FirstCount(stat_entries, LAMBDA e : e.del)

C9_Witness ==
    /\ diff_summary.kind = "return"
    /\ Len(stat_entries) = 2
    /\ stat_entries[1] = [kind |-> "summary", nfiles |-> 2, ins |-> None, del |-> Some(10)]
    /\ stat_entries[2] = [kind |-> "summary", nfiles |-> 2, ins |-> Some(1), del |-> Some(1)]
    /\ diff_summary.value.total_additions = 1
    /\ diff_summary.value.total_deletions = 10
    /\ diff_summary.value.files = <<>>

\* C10: for every supplied budget B >= 0 and every diff body strictly
\* longer than B, the returned raw diff is the first B characters of the
\* body followed by the truncation marker; the same for get_commit_diff.
C10_Truncation ==
    (max_chars.some /\ max_chars.n >= 0 /\ Len(raw_diff) > max_chars.n) =>
        LET expected == SubSeq(raw_diff, 1, max_chars.n)
                        \o <<"\n", "\n", ".", ".", ".", " ", "(", "t", "r", "u",
                             "n", "c", "a", "t", "e", "d", ")">>
        IN  /\ diff_summary.kind = "return"
                => diff_summary.value.raw_diff = expected
            /\ commit_diff.kind = "return"
                => commit_diff.value = expected

(***************************************************************************)
(* The commands: claims C4, C7.                                            *)
(***************************************************************************)
\* C4: whenever the status query of a run of the status command returned
\* is_dirty = TRUE and the change set of that run was built from the
\* uncommitted diff, its files list is non-empty: is_dirty together with
\* an empty files never reaches the statistics display or the LLM.
C4_DirtyHasFiles ==
    (/\ cmd = "status"
     /\ repo_status.kind = "return"
     /\ repo_status.value.is_dirty
     /\ diff_summary.kind = "return")
        => diff_summary.value.files # <<>>

\* C7: on a path without `.git` the GitAnalyzer constructor fails with
\* ValueError before any git subprocess runs; status, commit and report
\* print the error and return with no git query, LLM call, file write or
\* webhook send.
C7_NotARepository ==
    (~has_git_dir /\ pc \notin {"idle", "validate"}) =>
        /\ git.kind = "raise"
        /\ git.error.type = "ValueError"
        /\ pc = "done"
        /\ events = <<Ev("print_header", cmd), Ev("print_error", "Not a git repository")>>
        /\ \A i \in 1..Len(events) : events[i].op \notin OutsideOps

C7_Witness ==
    /\ ~has_git_dir
    /\ cmd = "report"
    /\ opts.save_path /\ opts.slack
    /\ pc = "done"
    /\ git.kind = "raise"
    /\ CountOf(events, "print_error") = 1

\* C11: when the diff body is no longer than the budget (a body of exactly
\* the budget's length included), or no budget is supplied, the returned
\* raw diff is the body unchanged and carries no truncation marker; the
\* same for get_commit_diff.
C11_NoTruncation ==
    (~max_chars.some \/ Len(raw_diff) <= max_chars.n) =>
        /\ diff_summary.kind = "return"
            => diff_summary.value.raw_diff = raw_diff
        /\ commit_diff.kind = "return"
            => commit_diff.value = raw_diff

C11_Witness ==
    /\ max_chars.some
    /\ max_chars.n = MaxBudget
    /\ Len(raw_diff) = max_chars.n
    /\ diff_summary.kind = "return"
    /\ diff_summary.value.raw_diff = raw_diff

(***************************************************************************)
(* The commands: claim C12.                                                *)
(***************************************************************************)
\* C12: a change set whose files list is populated is never treated as
\* "no changes", whatever its totals (0 and 0 for a pure rename): commit
\* prints the no-changes message exactly when the files list of the change
\* set it ends with is empty, and status prints it exactly when the status
\* query found the tree not dirty.
C12_FilesDecide ==
    /\ (cmd = "commit" /\ diff_summary.kind = "return") =>
          (CountOf(events, "print_no_changes") > 0
              <=> diff_summary.value.files = <<>>)
    /\ (cmd = "status" /\ CountOf(events, "print_no_changes") > 0) =>
          (repo_status.kind = "return" /\ ~repo_status.value.is_dirty)
    /\ (/\ cmd = "status" /\ pc = "done" /\ repo_status.kind = "return"
        /\ ~repo_status.value.is_dirty
        /\ events[Len(events)] # Unexpected) =>
          CountOf(events, "print_no_changes") = 1

C12_Witness ==
    /\ cmd = "commit"
    /\ diff_summary.kind = "return"
    /\ diff_summary.value.files # <<>>
    /\ diff_summary.value.total_additions = 0
    /\ diff_summary.value.total_deletions = 0
    /\ CountOf(events, "print_no_changes") = 0
    /\ CountOf(events, "llm") = 1

(***************************************************************************)
(* The commit log: claims C13 - C17.                                       *)
(***************************************************************************)
\* the records of the stream that have at least five fields
WellFormed(records) == SelectSeq(records, LAMBDA r : Len(r) >= 5)

\* s.lstrip()
LStrip(s) ==
    LET keep == {i \in 1..Len(s) : s[i] \notin Whitespace}
    IN  IF keep = {} THEN <<>> ELSE SubSeq(s, MinOf(keep), Len(s))

\* s.rstrip()
RStrip(s) ==
    LET keep == {i \in 1..Len(s) : s[i] \notin Whitespace}
    IN  IF keep = {} THEN <<>> ELSE SubSeq(s, 1, MaxOf(keep))

\* the fields of a record once the blanks before its first field and
\* after its last field are taken off
Trimmed(r) == [r EXCEPT ![1] = LStrip(r[1]), ![Len(r)] = RStrip(r[Len(r)])]

\* C13 (as stated): every record with at least five fields yields one
\* CommitRecord, in stream order, whose hash, author, email and subject
\* equal fields 0, 1, 2 and 4 of the record exactly and whose body is
\* field 5 when present and the empty text otherwise.
C13_RoundTripExact ==
    commit_log.kind = "return" =>
        LET good == WellFormed(log_records)
            out == commit_log.value
        IN  /\ Len(out) = Len(good)
            /\ \A i \in 1..Len(good) :
                  /\ out[i].hash = good[i][1]
                  /\ out[i].author = good[i][2]
                  /\ out[i].email = good[i][3]
                  /\ out[i].subject = good[i][5]
                  /\ out[i].body = IF Len(good[i]) > 5 THEN good[i][6] ELSE <<>>

\* C13 (amended): every record with at least five fields yields one
\* CommitRecord, in stream order, whose hash, author, email, subject and
\* body are fields 0, 1, 2, 4 and 5 (empty when absent) of the record
\* after whitespace is removed from the start of its first field and from
\* the end of its last field; exactly those fields, then, for a record
\* that neither starts nor ends with whitespace.
C13_RoundTripTrimmed ==
    commit_log.kind = "return" =>
        LET good == WellFormed(log_records)
            out == commit_log.value
        IN  /\ Len(out) = Len(good)
            /\ \A i \in 1..Len(good) :
                  LET f == Trimmed(good[i])
                  IN  /\ out[i].hash = f[1]
                      /\ out[i].author = f[2]
                      /\ out[i].email = f[3]
                      /\ out[i].subject = f[5]
                      /\ out[i].body = IF Len(f) > 5 THEN f[6] ELSE <<>>

C13_Witness ==
    /\ Len(log_records) = 2
    /\ log_records[1] = FullRecord(<<"g">>, GitIsoDate, <<"t">>)
    /\ Len(log_records[2]) = 5
    /\ Contains(log_output, <<RecordSep, "\n">>)
    /\ commit_log.kind = "return"
    /\ Len(commit_log.value) = 2
    /\ commit_log.value[1].hash = <<"g">>
    /\ commit_log.value[1].body = <<"b", "\n">>
    /\ commit_log.value[2].hash = <<"h">>
    /\ commit_log.value[2].body = <<>>

\* C14: a record with fewer than five fields yields no CommitRecord and no
\* error, and does not change what the other records yield: the call
\* returns, the result has one element for every record with at least five
\* fields, and it is the result for the stream without the short records.
C14_ShortRecordsDropped ==
    commit_log # NoValue =>
        /\ commit_log.kind = "return"
        /\ Len(commit_log.value) = Len(WellFormed(log_records))
        /\ \A pad \in Pads :
              LogText(log_records, pad) = log_output =>
                 commit_log.value =
                    GetRecentCommits(LogText(WellFormed(log_records), pad), py311)

C14_Witness ==
    /\ Len(log_records) = 2
    /\ Len(log_records[1]) = 4
    /\ Len(log_records[2]) = 5
    /\ commit_log.kind = "return"
    /\ Len(commit_log.value) = 1
    /\ commit_log.value[1].subject = <<"s">>

\* the date fields datetime.fromisoformat cannot read
Unparsable ==
    {BadMonthDate, <<"x">>, <<>>} \cup (IF py311 THEN {} ELSE {GitIsoDate})

\* C15: a record with at least five fields whose date cannot be parsed
\* still yields its CommitRecord, at its place, with hash, author, email
\* and subject as for any other record and with the current wall-clock
\* time as timestamp; the call returns.
C15_DateFallback ==
    commit_log # NoValue =>
        /\ commit_log.kind = "return"
        /\ LET good == WellFormed(log_records)
               out == commit_log.value
           IN  /\ Len(out) = Len(good)
               /\ \A i \in 1..Len(good) :
                     good[i][4] \in Unparsable =>
                        /\ out[i].date.clock = "now"
                        /\ out[i].hash = Trimmed(good[i])[1]
                        /\ out[i].author = good[i][2]
                        /\ out[i].email = good[i][3]
                        /\ out[i].subject = Trimmed(good[i])[5]

C15_Witness ==
    /\ Len(log_records) = 2
    /\ log_records[1] = FullRecord(<<"h">>, BadMonthDate, <<"s">>)
    /\ log_records[2] = FullRecord(<<"g">>, GitIsoDate, <<"t">>)
    /\ py311
    /\ commit_log.kind = "return"
    /\ Len(commit_log.value) = 2
    /\ commit_log.value[1].date.clock = "now"
    /\ commit_log.value[1].hash = <<"h">>
    /\ commit_log.value[2].date.clock = "parsed"

\* C16: every CommitRecord get_recent_commits returns has a timezone-aware
\* timestamp, the one made by the date-failure fallback included.
C16_AwareTimestamps ==
    commit_log.kind = "return" =>
        \A i \in 1..Len(commit_log.value) : commit_log.value[i].date.aware

\* C17: when the log output of a run of report holds no record with at
\* least five fields (empty output, whitespace-only output, short records
\* only), get_recent_commits returns the empty sequence, and report prints
\* the no-commits warning and ends without an LLM call.
C17_NoCommits ==
    (cmd = "report" /\ commit_log # NoValue /\ WellFormed(log_records) = <<>>) =>
        /\ commit_log = Returned(<<>>)
        /\ pc = "done"
        /\ events[Len(events)] = Ev("print_warning", "No commits found")
        /\ CountOf(events, "llm") = 0

C17_Witness ==
    /\ cmd = "report"
    /\ Len(log_records) = 1
    /\ Len(log_records[1]) = 4
    /\ commit_log = Returned(<<>>)
    /\ pc = "done"
    /\ CountOf(events, "print_warning") = 1

(***************************************************************************)
(* Configuration: claims C18 - C20.                                        *)
(***************************************************************************)
\* C18: provider resolution raises the no-provider error only when no
\* backend has a credential: whenever the Gemini key or the OpenRouter key
\* is non-empty, whatever the preference, a provider is returned.
C18_RaisesOnlyWithoutKeys ==
    provider.kind = "raise" =>
        (config.gemini_api_key = <<>> /\ config.openrouter_api_key = <<>>)

\* the key the configuration holds for a backend
KeyOf(c, backend) ==
    IF backend = "GEMINI" THEN c.gemini_api_key ELSE c.openrouter_api_key

\* C19: an explicit preference whose backend has a key selects that
\* backend whatever the other key is; the automatic preference selects
\* OpenRouter whenever its key is set and Gemini only when the OpenRouter
\* key is empty and the Gemini key is set; the provider returned, and the
\* one an LLMClient is built for, always has a non-empty key.
C19_ProviderSelection ==
    /\ provider # NoValue =>
          /\ (config.preferred_provider = ProviderGemini
                /\ config.gemini_api_key # <<>>) => provider = Returned("GEMINI")
          /\ (config.preferred_provider = ProviderOpenRouter
                /\ config.openrouter_api_key # <<>>)
                   => provider = Returned("OPENROUTER")
          /\ (config.preferred_provider = ProviderAuto
                /\ config.openrouter_api_key # <<>>)
                   => provider = Returned("OPENROUTER")
          /\ (config.preferred_provider = ProviderAuto
                /\ config.openrouter_api_key = <<>>
                /\ config.gemini_api_key # <<>>) => provider = Returned("GEMINI")
          /\ (config.preferred_provider = ProviderAuto
                /\ provider = Returned("GEMINI"))
                   => (config.openrouter_api_key = <<>>
                         /\ config.gemini_api_key # <<>>)
          /\ provider.kind = "return" => KeyOf(config, provider.value) # <<>>
    /\ llm_client.kind = "return" => llm_client.value.api_key # <<>>

C19_Witness ==
    /\ environ.GIT_SUMMARIZER_PROVIDER = Unset
    /\ environ.GEMINI_API_KEY # Unset
    /\ environ.OPENROUTER_API_KEY # Unset
    /\ provider = Returned("OPENROUTER")
    /\ llm_client.kind = "return"
    /\ llm_client.value.provider = "OPENROUTER"
    /\ llm_client.value.api_key = <<"o">>

\* C20: the process-wide configuration is written once, by the first
\* get_config call of the process, and never again: a step changes it
\* only from "not loaded" to loaded and only as the first get_config call;
\* every later step of status, commit and report, later get_config calls
\* included, leaves the object and its fields as they are.
C20_ConfigWrittenOnce ==
    [][config' # config =>
          /\ config = NoValue
          /\ CountOf(events, "get_config") = 0
          /\ CountOf(events', "get_config") = 1]_vars

C20_Witness ==
    /\ cmd = "report"
    /\ config # NoValue
    /\ config.slack_webhook_url # <<>>
    /\ CountOf(events, "get_config") = 2
    /\ CountOf(events, "webhook") = 1

(***************************************************************************)
(* The commands: claims C21 - C29.                                         *)
(***************************************************************************)
\* a git query of the run raised: the outer handler reported right after it
GitQueryFailed ==
    \E i \in 1..(Len(events) - 1) :
        events[i].op = "git" /\ events[i + 1] = Unexpected

\* one of the checks ahead of the effects failed: repository validation,
\* a git query, provider validation, the LLM generation
CheckFailed ==
    \/ git.kind = "raise"
    \/ GitQueryFailed
    \/ \E i \in 1..Len(events) :
          events[i] = Ev("print_error", "No LLM API key configured")
    \/ llm_text.kind = "raise"

\* C21: in a run of report in which repository validation, the commit
\* query, provider validation or the LLM generation failed, no Markdown
\* file is written and no webhook is posted; in such a run of commit no
\* `git commit` is executed; the command has ended, its last act being the
\* error report.
C21_NoEffectAfterFailure ==
    (cmd \in {"report", "commit"} /\ CheckFailed) =>
        /\ CountOf(events, "write") = 0
        /\ CountOf(events, "webhook") = 0
        /\ CountOf(events, "git_commit") = 0
        /\ pc = "done"
        /\ events[Len(events)].op = "print_error"

C21_Witness ==
    /\ cmd = "report"
    /\ opts.save_path /\ opts.slack
    /\ llm_text.kind = "raise"
    /\ CountOf(events, "llm") = 1
    /\ CountOf(events, "write") = 0
    /\ CountOf(events, "webhook") = 0
    /\ pc = "done"

Reports == {"print_error", "print_warning"}

\* C22: in a run of status, commit or report the LLM backend is called at
\* most once, the webhook is posted at most once and `git commit` is run
\* at most once; a failed LLM call is the last outside call of the run and
\* is followed by exactly one error report, which ends the run; a missing
\* provider gives one warning (status) and no error; no report is followed
\* directly by a second report, and the outer handler's report is the
\* only error report of its run and the last act of the run.
C22_NoRetryOneReport ==
    /\ CountOf(events, "llm") <= 1
    /\ CountOf(events, "webhook") <= 1
    /\ CountOf(events, "git_commit") <= 1
    /\ llm_text.kind = "raise" =>
          /\ pc = "done"
          /\ events[Len(events) - 1].op = "llm"
          /\ events[Len(events)].op = "print_error"
          /\ CountOf(events, "print_error") = 1
    /\ \A i \in 1..Len(events) :
          events[i] = Unexpected =>
             /\ i = Len(events)
             /\ CountOf(events, "print_error") = 1
    /\ \A i \in 1..Len(events) :
          events[i] = Ev("print_warning", "No LLM API key configured") =>
             /\ i = Len(events) - 1
             /\ CountOf(events, "print_error") = 0
    /\ \A i \in 1..(Len(events) - 1) :
          events[i].op \in Reports => events[i + 1].op \notin Reports

C22_Witness ==
    /\ cmd = "report"
    /\ opts.save_path /\ opts.slack
    /\ pc = "done"
    /\ CountOf(events, "llm") = 1
    /\ CountOf(events, "webhook") = 1
    /\ CountOf(events, "print_error") = 2
    /\ events[Len(events)] = Ev("print_report", "report")

\* a prompt of the run raised: the outer handler reported right after it
PromptFailed ==
    \E i \in 1..(Len(events) - 1) :
        /\ events[i].op \in {"select_files", "select_commits", "select_days",
                             "confirm_action"}
        /\ events[i + 1] = Unexpected

\* the first get_config call of the run raised: an error report follows it
ConfigLoadFailed ==
    \E i \in 1..(Len(events) - 1) :
        events[i] = Ev("get_config", "load") /\ events[i + 1].op = "print_error"

\* C23: no failure leaves a command as an exception: the command is always
\* at one of its steps or has returned; a failed repository validation,
\* git query, LLM generation, configuration load or prompt has ended the
\* run with an error report (a warning for status without a provider) as
\* its last report; a failure of the Markdown writer or of the webhook
\* sender is reported and the run goes on to print the report.
C23_NoFailurePropagates ==
    /\ pc \in {"idle", "validate", "repo_status", "last_activity", "check_dirty",
               "select_files", "generate", "commit_diff", "confirm",
               "recent_commits", "select_commits", "save", "slack", "done"}
    /\ (git.kind = "raise" \/ GitQueryFailed \/ PromptFailed \/ ConfigLoadFailed
          \/ llm_text.kind = "raise") =>
          /\ pc = "done"
          /\ events[Len(events)].op = "print_error"
    /\ \A i \in 1..Len(events) :
          events[i] \in {Ev("print_error", "Failed to save report"),
                         Ev("print_error", "Failed to send to Slack")} =>
             (pc = "slack" \/ (pc = "done"
                                 /\ events[Len(events)] = Ev("print_report", "report")))

C23_Witness ==
    /\ cmd = "status"
    /\ GitQueryFailed
    /\ CountOf(events, "git") = 3
    /\ pc = "done"
    /\ events[Len(events)] = Unexpected

\* C24: the window of report is the day-count override when one is given;
\* without an override and without interactive selection it is the
\* default_days of the configuration.
C24_ReportWindow ==
    (cmd = "report" /\ days.some) =>
        /\ opts.days.some => days.n = opts.days.n
        /\ (~opts.days.some /\ ~opts.interactive /\ config # NoValue) =>
              days.n = config.default_days

\* C25: SlackSender._truncate(text, 2500) returns the text unchanged when it
\* has at most 2500 characters, and otherwise a string of exactly 2500
\* characters: the first 2497 characters of the text followed by three dots.
C25_TruncateSummary ==
    slack_summary.kind = "return" =>
        LET text == report_text
            out == slack_summary.value
        IN  IF Len(text) <= 2500 THEN out = text
            ELSE /\ Len(out) = 2500
                 /\ SubSeq(out, 1, 2497) = SubSeq(text, 1, 2497)
                 /\ SubSeq(out, 2498, 2500) = <<".", ".", ".">>

C25_Witness ==
    /\ slack_summary.kind = "return"
    /\ Len(report_text) > 2500
    /\ Len(slack_summary.value) = 2500

\* C26: for a client built for either backend, every call of generate
\* either returns a completion string or fails with a RuntimeError; no other
\* error type escapes, and a failed call yields no value.
C26_GenerateContract ==
    generate_out # NoValue =>
        \/ /\ generate_out.kind = "return"
           /\ generate_out.value.type = "str"
        \/ /\ generate_out.kind = "raise"
           /\ generate_out.error.type = "RuntimeError"

\* C27: `git commit` is run only by the commit command in interactive mode,
\* only after a message was generated without a failure and the operator
\* answered yes to the confirmation, and with exactly the generated message;
\* without --interactive, after a declined confirmation, after an empty file
\* selection or after an earlier failure it is never run.
C27_CommitOnlyConfirmed ==
    \A i \in 1..Len(events) :
        events[i].op = "git_commit" =>
            /\ cmd = "commit"
            /\ opts.interactive
            /\ files_to_analyze # <<>>
            /\ llm_text.kind = "return"
            /\ events[i].arg = <<"git", "commit", "-m", llm_text.value>>
            /\ i > 2
            /\ events[i - 1].op = "confirm_action"
            /\ events[i - 1].arg = "yes"
            /\ events[i - 2].op = "print_commit_message"
            /\ \E j \in 1..(i - 1) : events[j].op = "llm"
            /\ \A j \in 1..(i - 1) : events[j].op # "print_error"

C27_Witness ==
    /\ pc = "done"
    /\ \E i \in 1..Len(events) : events[i].op = "git_commit"
    /\ events[Len(events)].op = "print_success"

\* the request status and commit hand to the LLM, against the change set
SelectionKept ==
    cmd \in {"status", "commit"} /\ llm_request # NoValue =>
        LET full == diff_summary.value
        IN  /\ files_to_analyze \in SubSeqsOf(full.files)
            /\ llm_request.diff = full.raw_diff
            /\ llm_request.stats =
                   ToDigits(Len(files_to_analyze)) \o FilesChangedText
                   \o ToDigits(full.total_additions) \o <<",", " ", "-">>
                   \o ToDigits(full.total_deletions)
            /\ cmd = "status" => llm_request.files = files_to_analyze

\* an empty selection: the warning, the end of the command, no LLM call
EmptySelectionEnds ==
    \A i \in 1..Len(events) :
        events[i].op = "select_files" /\ files_to_analyze = <<>>
        /\ pc # "select_files" =>
            /\ pc \in {"done", Caught}
            /\ CountOf(events, "llm") = 0
            /\ llm_request = NoValue

\* C28: the interactive file selection of status and commit leaves the
\* change set (files, totals, raw diff) as it was; the diff text and the
\* addition and deletion totals handed to the LLM are those of the whole
\* change set, the file list and the file count of the statistics line are
\* those of the selection, and an empty selection ends the command before
\* any LLM call.
C28_SelectionFrame ==
    [][/\ pc = "select_files" => diff_summary' = diff_summary
       /\ SelectionKept'
       /\ EmptySelectionEnds']_vars

C28_Witness ==
    /\ cmd = "status"
    /\ llm_request # NoValue
    /\ Len(files_to_analyze) < Len(diff_summary.value.files)
    /\ (\E i \in 1..Len(events) : events[i].op = "select_files")
    /\ diff_summary.value.total_additions + diff_summary.value.total_deletions > 0

DiffQueries == {"diff HEAD", "diff --stat HEAD"}

\* the events of status that come with or after the decision on is_dirty
AfterDecision(e) ==
    \/ e.op \in {"print_no_changes", "get_config", "llm", "select_files"}
    \/ e.op = "git" /\ e.arg \in DiffQueries

\* C29: status queries the diff and calls the LLM only when is_dirty holds;
\* when is_dirty is false (a clean tree, or untracked files only) it prints
\* the no-changes message and returns without a diff query, without reading
\* the configuration and without an LLM call; the status and the
\* last-activity displays come before that decision.
C29_StatusOnlyWhenDirty ==
    cmd = "status" /\ repo_status.kind = "return" =>
        /\ ~repo_status.value.is_dirty =>
              /\ \A i \in 1..Len(events) :
                    AfterDecision(events[i]) => events[i].op = "print_no_changes"
              /\ config = NoValue /\ diff_summary = NoValue
              /\ llm_request = NoValue
              /\ pc \notin {"select_files", "generate"}
              /\ pc = "done" /\ CountOf(events, "print_last_activity") = 1 =>
                    events[Len(events)].op = "print_no_changes"
        /\ \A i \in 1..Len(events) :
              AfterDecision(events[i]) =>
                  \E j, k \in 1..(i - 1) :
                      /\ j < k
                      /\ events[j].op = "print_status"
                      /\ events[k].op = "print_last_activity"

C29_Witness ==
    /\ cmd = "status" /\ pc = "done"
    /\ repo_status.kind = "return"
    /\ ~repo_status.value.is_dirty
    /\ repo_status.value.untracked # <<>>
    /\ events[Len(events)].op = "print_no_changes"

====
